---- MODULE Spec2Model ----
(***************************************************************************)
(* A model of the SEC filing chunker (app/pipelines/sec_chunker.py) and of *)
(* the text deduplicator of the SEC filing parser (sec_parser.py).         *)
(*                                                                         *)
(* Representation of Python values                                         *)
(*   - a character is a one-character string; a word is a tuple of         *)
(*     characters without whitespace;                                      *)
(*   - a text (Block.text, Chunk.content, a buffer entry, last_overlap) is *)
(*     held as the tuple of its whitespace-separated words, so that        *)
(*     str.split() of a text is that tuple, ' '.join concatenates and      *)
(*     str.strip() changes nothing; the amount and kind of whitespace      *)
(*     between two words is the only thing left out;                       *)
(*   - wherever the code looks at characters (regular expressions,         *)
(*     len(str), lower(), the fingerprint) the text is expanded to its     *)
(*     characters with Chars and the code's character-level work is done   *)
(*     on that tuple;                                                      *)
(*   - None, "" and 0 are the falsy values the code tests with "or" and    *)
(*     "if": an absent size override is 0, an absent form_type or          *)
(*     section_hint is the empty tuple.                                    *)
(***************************************************************************)
EXTENDS Integers, Sequences, FiniteSets, TLC

\* ------------------------------------------------------------------------
\* Characters and strings
\* ------------------------------------------------------------------------
Digits == {"0","1","2","3","4","5","6","7","8","9"}

LowerLetters ==
    {"a","b","c","d","e","f","g","h","i","j","k","l","m",
     "n","o","p","q","r","s","t","u","v","w","x","y","z"}

LowerCase ==
       "A" :> "a" @@ "B" :> "b" @@ "C" :> "c" @@ "D" :> "d" @@ "E" :> "e"
    @@ "F" :> "f" @@ "G" :> "g" @@ "H" :> "h" @@ "I" :> "i" @@ "J" :> "j"
    @@ "K" :> "k" @@ "L" :> "l" @@ "M" :> "m" @@ "N" :> "n" @@ "O" :> "o"
    @@ "P" :> "p" @@ "Q" :> "q" @@ "R" :> "r" @@ "S" :> "s" @@ "T" :> "t"
    @@ "U" :> "u" @@ "V" :> "v" @@ "W" :> "w" @@ "X" :> "x" @@ "Y" :> "y"
    @@ "Z" :> "z"

UpperCase ==
       "a" :> "A" @@ "b" :> "B" @@ "c" :> "C" @@ "d" :> "D" @@ "e" :> "E"
    @@ "f" :> "F" @@ "g" :> "G" @@ "h" :> "H" @@ "i" :> "I" @@ "j" :> "J"
    @@ "k" :> "K" @@ "l" :> "L" @@ "m" :> "M" @@ "n" :> "N" @@ "o" :> "O"
    @@ "p" :> "P" @@ "q" :> "Q" @@ "r" :> "R" @@ "s" :> "S" @@ "t" :> "T"
    @@ "u" :> "U" @@ "v" :> "V" @@ "w" :> "W" @@ "x" :> "X" @@ "y" :> "Y"
    @@ "z" :> "Z"

\* str.lower() and str.upper() on a tuple of characters
lower(s) == [i \in 1..Len(s) |-> IF s[i] \in DOMAIN LowerCase THEN LowerCase[s[i]] ELSE s[i]]

upper(s) == [i \in 1..Len(s) |-> IF s[i] \in DOMAIN UpperCase THEN UpperCase[s[i]] ELSE s[i]]

Range(s) == {s[i] : i \in 1..Len(s)}

Min(a, b) == IF a < b THEN a ELSE b

\* s[n:] and s[:n] for n >= 0
DropN(s, n) == SubSeq(s, n + 1, Len(s))

TakeN(s, n) == SubSeq(s, 1, Min(n, Len(s)))

\* s[-n:] for n > 0
LastN(s, n) == SubSeq(s, (IF Len(s) > n THEN Len(s) - n ELSE 0) + 1, Len(s))

StartsWith(s, p) == Len(s) >= Len(p) /\ SubSeq(s, 1, Len(p)) = p

\* the characters of ' '.join(words)
RECURSIVE Chars(_)
Chars(words) ==
    IF words = <<>> THEN <<>>
    ELSE IF Len(words) = 1 THEN words[1]
    ELSE words[1] \o <<" ">> \o Chars(Tail(words))

\* str.split() of a tuple of characters: the maximal runs without whitespace,
\* from the positions where such a run starts and where it ends
split(s) ==
    LET starts == {i \in 1..Len(s) : s[i] \notin {" ", "\n"} /\ (i = 1 \/ s[i - 1] \in {" ", "\n"})}
        ends == {i \in 1..Len(s) : s[i] \notin {" ", "\n"} /\ (i = Len(s) \/ s[i + 1] \in {" ", "\n"})}
        nth(set, k) == CHOOSE i \in set : Cardinality({j \in set : j < i}) = k - 1
    IN  [k \in 1..Cardinality(starts) |-> SubSeq(s, nth(starts, k), nth(ends, k))]

\* the concatenation of a list of texts: ' '.join(buffer) followed by split()
RECURSIVE Flatten(_)
Flatten(list) == IF list = <<>> THEN <<>> ELSE Head(list) \o Flatten(Tail(list))

\* re.split(r'(?<=[.!?])\s+', text): a text is cut after every word that ends
\* in '.', '!' or '?' and is followed by whitespace, i.e. is not the last word
RECURSIVE SentencesFrom(_, _, _, _)
SentencesFrom(text, i, cur, acc) ==
    IF i > Len(text) THEN Append(acc, cur)
    ELSE LET w == text[i] IN
         IF i < Len(text) /\ w[Len(w)] \in {".", "!", "?"}
         THEN SentencesFrom(text, i + 1, <<>>, Append(acc, Append(cur, w)))
         ELSE SentencesFrom(text, i + 1, Append(cur, w), acc)

split_sentences(text) == SentencesFrom(text, 1, <<>>, <<>>)

\* ------------------------------------------------------------------------
\* Tables of sec_parser.py and sec_chunker.py
\* ------------------------------------------------------------------------
ITEM_TITLES_10K ==
       <<"1">> :> <<"B","u","s","i","n","e","s","s">>
    @@ <<"1","A">> :> <<"R","i","s","k"," ","F","a","c","t","o","r","s">>
    @@ <<"1","B">> :> <<"U","n","r","e","s","o","l","v","e","d"," ","S","t","a","f","f"," ","C","o","m","m","e","n","t","s">>
    @@ <<"1","C">> :> <<"C","y","b","e","r","s","e","c","u","r","i","t","y">>
    @@ <<"1","D">> :> <<"I","n","f","o","r","m","a","t","i","o","n"," ","a","b","o","u","t"," ","E","x","e","c","u","t","i","v","e"," ","O","f","f","i","c","e","r","s">>
    @@ <<"2">> :> <<"P","r","o","p","e","r","t","i","e","s">>
    @@ <<"3">> :> <<"L","e","g","a","l"," ","P","r","o","c","e","e","d","i","n","g","s">>
    @@ <<"4">> :> <<"M","i","n","e"," ","S","a","f","e","t","y"," ","D","i","s","c","l","o","s","u","r","e","s">>
    @@ <<"5">> :> <<"M","a","r","k","e","t"," ","f","o","r"," ","R","e","g","i","s","t","r","a","n","t","'","s"," ","C","o","m","m","o","n"," ","E","q","u","i","t","y">>
    @@ <<"6">> :> <<"R","e","s","e","r","v","e","d">>
    @@ <<"7">> :> <<"M","a","n","a","g","e","m","e","n","t","'","s"," ","D","i","s","c","u","s","s","i","o","n"," ","a","n","d"," ","A","n","a","l","y","s","i","s">>
    @@ <<"7","A">> :> <<"Q","u","a","n","t","i","t","a","t","i","v","e"," ","a","n","d"," ","Q","u","a","l","i","t","a","t","i","v","e"," ","D","i","s","c","l","o","s","u","r","e","s"," ","A","b","o","u","t"," ","M","a","r","k","e","t"," ","R","i","s","k">>
    @@ <<"8">> :> <<"F","i","n","a","n","c","i","a","l"," ","S","t","a","t","e","m","e","n","t","s"," ","a","n","d"," ","S","u","p","p","l","e","m","e","n","t","a","r","y"," ","D","a","t","a">>
    @@ <<"9">> :> <<"C","h","a","n","g","e","s"," ","i","n"," ","a","n","d"," ","D","i","s","a","g","r","e","e","m","e","n","t","s"," ","w","i","t","h"," ","A","c","c","o","u","n","t","a","n","t","s">>
    @@ <<"9","A">> :> <<"C","o","n","t","r","o","l","s"," ","a","n","d"," ","P","r","o","c","e","d","u","r","e","s">>
    @@ <<"9","B">> :> <<"O","t","h","e","r"," ","I","n","f","o","r","m","a","t","i","o","n">>
    @@ <<"9","C">> :> <<"D","i","s","c","l","o","s","u","r","e"," ","R","e","g","a","r","d","i","n","g"," ","F","o","r","e","i","g","n"," ","J","u","r","i","s","d","i","c","t","i","o","n","s">>
    @@ <<"1","0">> :> <<"D","i","r","e","c","t","o","r","s",","," ","E","x","e","c","u","t","i","v","e"," ","O","f","f","i","c","e","r","s"," ","a","n","d"," ","C","o","r","p","o","r","a","t","e"," ","G","o","v","e","r","n","a","n","c","e">>
    @@ <<"1","1">> :> <<"E","x","e","c","u","t","i","v","e"," ","C","o","m","p","e","n","s","a","t","i","o","n">>
    @@ <<"1","2">> :> <<"S","e","c","u","r","i","t","y"," ","O","w","n","e","r","s","h","i","p">>
    @@ <<"1","3">> :> <<"C","e","r","t","a","i","n"," ","R","e","l","a","t","i","o","n","s","h","i","p","s"," ","a","n","d"," ","R","e","l","a","t","e","d"," ","T","r","a","n","s","a","c","t","i","o","n","s">>
    @@ <<"1","4">> :> <<"P","r","i","n","c","i","p","a","l"," ","A","c","c","o","u","n","t","a","n","t"," ","F","e","e","s"," ","a","n","d"," ","S","e","r","v","i","c","e","s">>
    @@ <<"1","5">> :> <<"E","x","h","i","b","i","t","s"," ","a","n","d"," ","F","i","n","a","n","c","i","a","l"," ","S","t","a","t","e","m","e","n","t"," ","S","c","h","e","d","u","l","e","s">>
    @@ <<"1","6">> :> <<"F","o","r","m"," ","1","0","-","K"," ","S","u","m","m","a","r","y">>
ITEM_TITLES_10Q_I ==
       <<"1">> :> <<"F","i","n","a","n","c","i","a","l"," ","S","t","a","t","e","m","e","n","t","s">>
    @@ <<"2">> :> <<"M","a","n","a","g","e","m","e","n","t","'","s"," ","D","i","s","c","u","s","s","i","o","n"," ","a","n","d"," ","A","n","a","l","y","s","i","s">>
    @@ <<"3">> :> <<"Q","u","a","n","t","i","t","a","t","i","v","e"," ","a","n","d"," ","Q","u","a","l","i","t","a","t","i","v","e"," ","D","i","s","c","l","o","s","u","r","e","s"," ","A","b","o","u","t"," ","M","a","r","k","e","t"," ","R","i","s","k">>
    @@ <<"4">> :> <<"C","o","n","t","r","o","l","s"," ","a","n","d"," ","P","r","o","c","e","d","u","r","e","s">>
ITEM_TITLES_10Q_II ==
       <<"1">> :> <<"L","e","g","a","l"," ","P","r","o","c","e","e","d","i","n","g","s">>
    @@ <<"1","A">> :> <<"R","i","s","k"," ","F","a","c","t","o","r","s">>
    @@ <<"2">> :> <<"U","n","r","e","g","i","s","t","e","r","e","d"," ","S","a","l","e","s"," ","o","f"," ","E","q","u","i","t","y"," ","S","e","c","u","r","i","t","i","e","s">>
    @@ <<"3">> :> <<"D","e","f","a","u","l","t","s"," ","U","p","o","n"," ","S","e","n","i","o","r"," ","S","e","c","u","r","i","t","i","e","s">>
    @@ <<"4">> :> <<"M","i","n","e"," ","S","a","f","e","t","y"," ","D","i","s","c","l","o","s","u","r","e","s">>
    @@ <<"5">> :> <<"O","t","h","e","r"," ","I","n","f","o","r","m","a","t","i","o","n">>
    @@ <<"6">> :> <<"E","x","h","i","b","i","t","s">>
ITEM_TITLES_8K ==
       <<"1",".","0","1">> :> <<"E","n","t","r","y"," ","i","n","t","o"," ","M","a","t","e","r","i","a","l"," ","D","e","f","i","n","i","t","i","v","e"," ","A","g","r","e","e","m","e","n","t">>
    @@ <<"1",".","0","2">> :> <<"T","e","r","m","i","n","a","t","i","o","n"," ","o","f"," ","M","a","t","e","r","i","a","l"," ","D","e","f","i","n","i","t","i","v","e"," ","A","g","r","e","e","m","e","n","t">>
    @@ <<"1",".","0","3">> :> <<"B","a","n","k","r","u","p","t","c","y"," ","o","r"," ","R","e","c","e","i","v","e","r","s","h","i","p">>
    @@ <<"2",".","0","1">> :> <<"C","o","m","p","l","e","t","i","o","n"," ","o","f"," ","A","c","q","u","i","s","i","t","i","o","n"," ","o","r"," ","D","i","s","p","o","s","i","t","i","o","n"," ","o","f"," ","A","s","s","e","t","s">>
    @@ <<"2",".","0","2">> :> <<"R","e","s","u","l","t","s"," ","o","f"," ","O","p","e","r","a","t","i","o","n","s"," ","a","n","d"," ","F","i","n","a","n","c","i","a","l"," ","C","o","n","d","i","t","i","o","n">>
    @@ <<"2",".","0","3">> :> <<"C","r","e","a","t","i","o","n"," ","o","f"," ","D","i","r","e","c","t"," ","F","i","n","a","n","c","i","a","l"," ","O","b","l","i","g","a","t","i","o","n">>
    @@ <<"2",".","0","4">> :> <<"T","r","i","g","g","e","r","i","n","g"," ","E","v","e","n","t","s"," ","T","h","a","t"," ","A","c","c","e","l","e","r","a","t","e"," ","O","b","l","i","g","a","t","i","o","n","s">>
    @@ <<"2",".","0","5">> :> <<"C","o","s","t","s"," ","A","s","s","o","c","i","a","t","e","d"," ","w","i","t","h"," ","E","x","i","t"," ","o","r"," ","D","i","s","p","o","s","a","l"," ","A","c","t","i","v","i","t","i","e","s">>
    @@ <<"2",".","0","6">> :> <<"M","a","t","e","r","i","a","l"," ","I","m","p","a","i","r","m","e","n","t","s">>
    @@ <<"3",".","0","1">> :> <<"N","o","t","i","c","e"," ","o","f"," ","D","e","l","i","s","t","i","n","g">>
    @@ <<"3",".","0","2">> :> <<"U","n","r","e","g","i","s","t","e","r","e","d"," ","S","a","l","e","s"," ","o","f"," ","E","q","u","i","t","y"," ","S","e","c","u","r","i","t","i","e","s">>
    @@ <<"3",".","0","3">> :> <<"M","a","t","e","r","i","a","l"," ","M","o","d","i","f","i","c","a","t","i","o","n"," ","t","o"," ","R","i","g","h","t","s">>
    @@ <<"4",".","0","1">> :> <<"C","h","a","n","g","e","s"," ","i","n"," ","R","e","g","i","s","t","r","a","n","t","'","s"," ","C","e","r","t","i","f","y","i","n","g"," ","A","c","c","o","u","n","t","a","n","t">>
    @@ <<"4",".","0","2">> :> <<"N","o","n","-","R","e","l","i","a","n","c","e"," ","o","n"," ","P","r","e","v","i","o","u","s","l","y"," ","I","s","s","u","e","d"," ","F","i","n","a","n","c","i","a","l"," ","S","t","a","t","e","m","e","n","t","s">>
    @@ <<"5",".","0","1">> :> <<"C","h","a","n","g","e","s"," ","i","n"," ","C","o","n","t","r","o","l"," ","o","f"," ","R","e","g","i","s","t","r","a","n","t">>
    @@ <<"5",".","0","2">> :> <<"D","e","p","a","r","t","u","r","e","/","E","l","e","c","t","i","o","n"," ","o","f"," ","D","i","r","e","c","t","o","r","s"," ","o","r"," ","O","f","f","i","c","e","r","s">>
    @@ <<"5",".","0","3">> :> <<"A","m","e","n","d","m","e","n","t","s"," ","t","o"," ","A","r","t","i","c","l","e","s"," ","o","r"," ","B","y","l","a","w","s">>
    @@ <<"5",".","0","4">> :> <<"T","e","m","p","o","r","a","r","y"," ","S","u","s","p","e","n","s","i","o","n"," ","o","f"," ","T","r","a","d","i","n","g">>
    @@ <<"5",".","0","5">> :> <<"A","m","e","n","d","m","e","n","t"," ","t","o"," ","R","e","g","i","s","t","r","a","n","t","'","s"," ","C","o","d","e"," ","o","f"," ","E","t","h","i","c","s">>
    @@ <<"5",".","0","6">> :> <<"C","h","a","n","g","e"," ","i","n"," ","S","h","e","l","l"," ","C","o","m","p","a","n","y"," ","S","t","a","t","u","s">>
    @@ <<"5",".","0","7">> :> <<"S","u","b","m","i","s","s","i","o","n"," ","o","f"," ","M","a","t","t","e","r","s"," ","t","o"," ","V","o","t","e"," ","o","f"," ","S","e","c","u","r","i","t","y"," ","H","o","l","d","e","r","s">>
    @@ <<"5",".","0","8">> :> <<"S","h","a","r","e","h","o","l","d","e","r"," ","N","o","m","i","n","a","t","i","o","n","s">>
    @@ <<"7",".","0","1">> :> <<"R","e","g","u","l","a","t","i","o","n"," ","F","D"," ","D","i","s","c","l","o","s","u","r","e">>
    @@ <<"8",".","0","1">> :> <<"O","t","h","e","r"," ","E","v","e","n","t","s">>
    @@ <<"9",".","0","1">> :> <<"F","i","n","a","n","c","i","a","l"," ","S","t","a","t","e","m","e","n","t","s"," ","a","n","d"," ","E","x","h","i","b","i","t","s">>

ITEM_TITLES_10Q == <<"I">> :> ITEM_TITLES_10Q_I @@ <<"I","I">> :> ITEM_TITLES_10Q_II

\* ITEM_PATTERNS: the 10-K and the 10-Q entry are the same regular expression
ITEM_PATTERNS == <<"1","0","-","K">> :> "item_10k" @@ <<"1","0","-","Q">> :> "item_10k" @@ <<"8","-","K">> :> "item_8k"

\* FORM_CONFIGS; item_titles names the table the entry refers to
FORM_CONFIGS ==
       <<"1","0","-","K">> :> [target_chunk_size |-> 400, min_chunk_size |-> 100,
                   max_chunk_size |-> 800, overlap_size |-> 50,
                   item_titles |-> "ITEM_TITLES_10K"]
    @@ <<"1","0","-","Q">> :> [target_chunk_size |-> 350, min_chunk_size |-> 80,
                   max_chunk_size |-> 700, overlap_size |-> 40,
                   item_titles |-> "ITEM_TITLES_10Q"]
    @@ <<"8","-","K">>  :> [target_chunk_size |-> 300, min_chunk_size |-> 50,
                   max_chunk_size |-> 600, overlap_size |-> 30,
                   item_titles |-> "ITEM_TITLES_8K"]

\* dict.get(key, default)
Get(d, key, default) == IF key \in DOMAIN d THEN d[key] ELSE default

\* ------------------------------------------------------------------------
\* SECChunker: construction and configuration
\* ------------------------------------------------------------------------
NewStats ==
    [sections |-> 0, chunks |-> 0, tables |-> 0, trivial_skipped |-> 0,
     boilerplate_skipped |-> 0, merged_undersized |-> 0, content_deduped |-> 0]

\* _apply_form_config falling back to the configuration of an 8-K
apply_form_config_default_8k(s, target, min_size, max_size, overlap) ==
    LET config == Get(FORM_CONFIGS, s.form_type, FORM_CONFIGS[<<"8","-","K">>])
    IN  [s EXCEPT
            !.target_chunk_size = IF target # 0 THEN target ELSE config.target_chunk_size,
            !.min_chunk_size = IF min_size # 0 THEN min_size ELSE config.min_chunk_size,
            !.max_chunk_size = IF max_size # 0 THEN max_size ELSE config.max_chunk_size,
            !.overlap_size = IF overlap # 0 THEN overlap ELSE config.overlap_size,
            !.item_titles = config.item_titles]

\* _apply_form_config on instance s: "x or config[...]" keeps a non-zero override
apply_form_config(s, target, min_size, max_size, overlap) ==
    LET config == Get(FORM_CONFIGS, s.form_type, FORM_CONFIGS[<<"1","0","-","K">>])
    IN  [s EXCEPT
            !.target_chunk_size = IF target # 0 THEN target ELSE config.target_chunk_size,
            !.min_chunk_size = IF min_size # 0 THEN min_size ELSE config.min_chunk_size,
            !.max_chunk_size = IF max_size # 0 THEN max_size ELSE config.max_chunk_size,
            !.overlap_size = IF overlap # 0 THEN overlap ELSE config.overlap_size,
            !.item_titles = config.item_titles]

\* __init__; a is the record of the constructor's arguments
init(a) ==
    LET s0 == [form_type |-> upper(a.form_type),
               current_10q_part |-> <<"I">>,
               target_chunk_size |-> 0, min_chunk_size |-> 0,
               max_chunk_size |-> 0, overlap_size |-> 0,
               item_titles |-> "",
               min_table_words |-> a.min_table_words,
               pattern |-> "",
               seen_content |-> {},
               stats |-> NewStats]
        s1 == apply_form_config(s0, a.target_chunk_size, a.min_chunk_size,
                                a.max_chunk_size, a.overlap_size)
    IN  [s1 EXCEPT !.pattern = Get(ITEM_PATTERNS, s1.form_type, ITEM_PATTERNS[<<"1","0","-","K">>])]

\* process, lines 171-181, with the counters cleared and nothing else
reset_stats_only(s) == [s EXCEPT !.stats = NewStats]

\* process, lines 171-181: the reset of the per-document state
reset_state(s) ==
    [s EXCEPT !.seen_content = {},
              !.current_10q_part = <<"I">>,
              !.stats = NewStats]

\* lines 185-186, once self.form_type is set
reconfigure(s) ==
    [apply_form_config(s, 0, 0, 0, 0) EXCEPT
        !.pattern = Get(ITEM_PATTERNS, s.form_type, ITEM_PATTERNS[<<"1","0","-","K">>])]

\* process, lines 171-186: the reset and the form_type argument (the empty
\* tuple when absent)
process_reset(s, form_type) ==
    IF form_type # <<>>
    THEN reconfigure([reset_state(s) EXCEPT !.form_type = upper(form_type)])
    ELSE reset_state(s)

\* the dictionary self.item_titles refers to
item_titles_of(s) ==
    CASE s.item_titles = "ITEM_TITLES_10Q" -> ITEM_TITLES_10Q
      [] s.item_titles = "ITEM_TITLES_8K" -> ITEM_TITLES_8K
      [] OTHER -> ITEM_TITLES_10K

\* the lookup of _get_item_title in the dictionary item_titles; the empty tuple
\* is the empty string
title_in(item_titles, form_type, part, item_num) ==
    IF form_type = <<"1","0","-","Q">>
    THEN IF Get(Get(item_titles, part, <<>>), item_num, <<>>) = <<>>
         THEN Get(Get(item_titles, IF part = <<"I">> THEN <<"I","I">> ELSE <<"I">>, <<>>), item_num, <<>>)
         ELSE Get(Get(item_titles, part, <<>>), item_num, <<>>)
    ELSE Get(item_titles, item_num, <<>>)

\* _get_item_title (the definition at line 221 replaces the one at line 116)
get_item_title(s, item_num) ==
    title_in(item_titles_of(s), s.form_type, s.current_10q_part, item_num)

\* ------------------------------------------------------------------------
\* Regular expressions, on the characters of a text
\* ------------------------------------------------------------------------
\* the number of leading characters of s that are in class, at most limit
RECURSIVE SpanLen(_, _, _)
SpanLen(s, class, limit) ==
    IF s = <<>> \/ limit = 0 \/ Head(s) \notin class THEN 0
    ELSE 1 + SpanLen(Tail(s), class, limit - 1)

\* s without its leading whitespace (\s*)
SkipSpace(s) == DropN(s, SpanLen(s, {" ", "\n"}, Len(s)))

\* x? : s without a leading character of class, when there is one
SkipOne(s, class) == DropN(s, SpanLen(s, class, 1))

\* BOILERPLATE_RE.match(text): the eight patterns, each anchored at both ends,
\* compiled with re.IGNORECASE
BOILERPLATE_RE_match(text) ==
    LET s == lower(Chars(text))
        after_page == SkipSpace(DropN(s, 4))
        after_part == SkipSpace(DropN(s, 4))
        toc == SkipSpace(DropN(s, 5))
        toc2 == SkipSpace(DropN(toc, 2))
    IN  \/ /\ StartsWith(s, <<"t","a","b","l","e">>) /\ StartsWith(toc, <<"o","f">>)
           /\ toc2 \in {<<"c","o","n","t","e","n","t">>, <<"c","o","n","t","e","n","t","s">>}
        \/ s \in {<<"s","i","g","n","a","t","u","r","e">>, <<"s","i","g","n","a","t","u","r","e","s">>}
        \/ StartsWith(s, <<"p","a","g","e">>) /\ after_page # <<>> /\ Range(after_page) \subseteq Digits
        \/ s # <<>> /\ Range(s) \subseteq Digits
        \/ /\ StartsWith(s, <<"p","a","r","t">>) /\ Len(s) > 4 /\ s[5] \in {" ", "\n"}
           /\ after_part # <<>> /\ Range(after_part) \subseteq {"i", "v", "x"}
        \/ StartsWith(s, <<"e","x","h","i","b","i","t">>) /\ Len(s) > 7 /\ s[8] \in {" ", "\n"}
           /\ SkipSpace(DropN(s, 7)) = <<"i","n","d","e","x">>
        \/ s \in {<<"n","o","n","e">>, <<"n","o","n","e",".">>}
        \/ s \in {<<"n","a">>, <<"n","/","a">>, <<"n","a",".">>, <<"n","/","a",".">>}

\* self.pattern.match(text) for the ITEM_PATTERNS entry the instance compiled:
\*   ^(?:ITEM|Item)\s*(\d{1,2}[A-Da-d]?)\.?\s*[-.]?\s*(.*)$     10-K, 10-Q
\*   ^(?:ITEM|Item)\s*(\d+\.?\d*)\.?\s*[-.]?\s*(.*)$            8-K
\* (the separator class also holds the en and the em dash). Every part after
\* the first digit is optional and (.*) takes the rest, so the greedy match is
\* the match. The result holds group(1) and group(2).strip().
pattern_match(pattern, text) ==
    LET s == Chars(text)
        r0 == SkipSpace(DropN(s, 4))
        n10k == LET d == SpanLen(r0, Digits, 2)
                IN  d + SpanLen(DropN(r0, d), {"A","B","C","D","a","b","c","d"}, 1)
        n8k == LET d == SpanLen(r0, Digits, Len(r0))
                   p == SpanLen(DropN(r0, d), {"."}, 1)
               IN  d + p + SpanLen(DropN(r0, d + p), Digits, Len(r0))
        n == IF pattern = "item_8k" THEN n8k ELSE n10k
        rest == SkipSpace(SkipOne(SkipSpace(SkipOne(DropN(r0, n), {"."})), {"-", "."}))
    IN  IF (StartsWith(s, <<"I","T","E","M">>) \/ StartsWith(s, <<"I","t","e","m">>)) /\ SpanLen(r0, Digits, 1) = 1
        THEN [matched |-> TRUE, group1 |-> TakeN(r0, n), group2 |-> rest]
        ELSE [matched |-> FALSE, group1 |-> <<>>, group2 |-> <<>>]

\* ------------------------------------------------------------------------
\* _filter_boilerplate and _get_content_fingerprint
\* ------------------------------------------------------------------------
\* TABLE_DATA_RE.sub(' ', text): every maximal run of '|', '-' and whitespace
\* becomes one space
RECURSIVE TABLE_DATA_RE_sub(_)
TABLE_DATA_RE_sub(s) ==
    IF s = <<>> THEN <<>>
    ELSE LET n == SpanLen(s, {"|", "-", " ", "\n"}, Len(s))
         IN  IF n > 0 THEN <<" ">> \o TABLE_DATA_RE_sub(DropN(s, n))
             ELSE <<Head(s)>> \o TABLE_DATA_RE_sub(Tail(s))

\* _get_content_fingerprint returning the first 100 characters
get_content_fingerprint_of_100(text) ==
    LET s0 == Chars(text)
        s1 == IF "|" \in Range(s0) THEN TABLE_DATA_RE_sub(s0) ELSE s0
        s2 == SelectSeq(lower(s1), LAMBDA c : c \in LowerLetters \cup Digits \cup {" ", "\n"})
        s3 == Chars(split(s2))
    IN  TakeN(s3, 100)

\* _get_content_fingerprint, on the characters of the stripped text
get_content_fingerprint(text) ==
    LET s0 == Chars(text)
        s1 == IF "|" \in Range(s0) THEN TABLE_DATA_RE_sub(s0) ELSE s0
        s2 == SelectSeq(lower(s1), LAMBDA c : c \in LowerLetters \cup Digits \cup {" ", "\n"})
        s3 == Chars(split(s2))
    IN  TakeN(s3, 200)

\* one iteration of the loop of _filter_boilerplate over blocks[i..]
RECURSIVE filter_loop(_, _, _, _, _)
filter_loop(blocks, i, filtered, seen, stats) ==
    IF i > Len(blocks)
    THEN [filtered |-> filtered, seen_content |-> seen, stats |-> stats]
    ELSE LET block == blocks[i]
             text == block.text
             fingerprint == get_content_fingerprint(text)
         IN  IF BOILERPLATE_RE_match(text)
             THEN filter_loop(blocks, i + 1, filtered, seen,
                              [stats EXCEPT !.boilerplate_skipped = @ + 1])
             ELSE IF ~block.is_table /\ Len(text) < 5
             THEN filter_loop(blocks, i + 1, filtered, seen,
                              [stats EXCEPT !.boilerplate_skipped = @ + 1])
             ELSE IF fingerprint \in seen
             THEN filter_loop(blocks, i + 1, filtered, seen,
                              [stats EXCEPT !.content_deduped = @ + 1])
             ELSE filter_loop(blocks, i + 1, Append(filtered, block),
                              IF Len(fingerprint) > 20 THEN seen \cup {fingerprint} ELSE seen,
                              stats)

\* _filter_boilerplate returning the list it was given
filter_boilerplate_returning_input(s, blocks) ==
    LET r == filter_loop(blocks, 1, <<>>, s.seen_content, s.stats)
    IN  [self |-> [s EXCEPT !.seen_content = r.seen_content, !.stats = r.stats],
         filtered |-> blocks]

\* _filter_boilerplate on instance s: the instance afterwards and the returned list
filter_boilerplate(s, blocks) ==
    LET r == filter_loop(blocks, 1, <<>>, s.seen_content, s.stats)
    IN  [self |-> [s EXCEPT !.seen_content = r.seen_content, !.stats = r.stats],
         filtered |-> r.filtered]

\* ------------------------------------------------------------------------
\* _extract_sections
\* ------------------------------------------------------------------------
\* str.split(":", 1): one part when there is no colon, else two
RECURSIVE SplitColonAt(_, _)
SplitColonAt(s, i) ==
    IF i > Len(s) THEN <<s>>
    ELSE IF s[i] = ":" THEN <<SubSeq(s, 1, i - 1), DropN(s, i)>>
    ELSE SplitColonAt(s, i + 1)

split_colon(s) == SplitColonAt(s, 1)

\* str.replace('.', '_')
replace_dot(s) == [i \in 1..Len(s) |-> IF s[i] = "." THEN "_" ELSE s[i]]

Section(id, title, blocks, start_page) ==
    [id |-> id, title |-> title, blocks |-> blocks, start_page |-> start_page]

\* lines 285-309: whether the block is a header, by the parser's hint (parts
\* is the split hint) or by the pattern (m is its match), and its item number
header_info(block, parts, m) ==
    IF block.section_hint # <<>> /\ Len(parts) = 2 /\ parts[1] = <<"i","t","e","m">>
    THEN [is_header |-> TRUE, by_hint |-> TRUE, item_num |-> parts[2], group2 |-> <<>>]
    ELSE IF m.matched /\ block.type \in {"header", "text", "item_header"}
    THEN [is_header |-> TRUE, by_hint |-> FALSE, item_num |-> upper(m.group1),
          group2 |-> m.group2]
    ELSE [is_header |-> FALSE, by_hint |-> FALSE, item_num |-> <<>>, group2 |-> <<>>]

\* title_text at line 325: the looked-up title for a hinted header (line 301),
\* group(2) of the match otherwise (line 309)
title_text_of(h, std_title) == IF h.by_hint THEN std_title ELSE h.group2

\* lines 312-335: header h closes the open section (or the preamble) and opens
\* a new one; st.current is the empty tuple for None, else <<section>>;
\* std_title is _get_item_title(item_num)
open_section(st, block, h, std_title) ==
    [st EXCEPT
        !.sections = IF st.current # <<>> THEN Append(st.sections, st.current[1])
                     ELSE IF st.preamble_blocks # <<>>
                     THEN Append(st.sections,
                                 Section(<<"p","r","e","a","m","b","l","e">>, <<"C","o","v","e","r"," ","a","n","d"," ","T","a","b","l","e"," ","o","f"," ","C","o","n","t","e","n","t","s">>,
                                         st.preamble_blocks, st.preamble_blocks[1].page))
                     ELSE st.sections,
        !.preamble_blocks = IF st.current = <<>> THEN <<>> ELSE @,
        !.current = <<Section(<<"i","t","e","m","_">> \o replace_dot(lower(h.item_num)),
                              <<"I","t","e","m"," ">> \o h.item_num \o <<":"," ">>
                                  \o (IF Len(title_text_of(h, std_title)) < 10 /\ std_title # <<>>
                                      THEN std_title
                                      ELSE title_text_of(h, std_title)),
                              <<>>, block.page)>>]

\* lines 311-339, for a block with header information h; s carries the current part
place_block(s, st, block, h) ==
    IF h.is_header THEN open_section(st, block, h, get_item_title(s, h.item_num))
    ELSE IF st.current # <<>> THEN [st EXCEPT !.current[1].blocks = Append(@, block)]
    ELSE [st EXCEPT !.preamble_blocks = Append(@, block)]

\* lines 283-339, the body of the loop, with the hint split into parts and the
\* pattern's match m; st.part is _current_10q_part
extract_parsed(s, st, block, parts, m) ==
    IF /\ block.section_hint # <<>> /\ Len(parts) = 2
       /\ s.form_type = <<"1","0","-","Q">> /\ parts[1] = <<"p","a","r","t">>
    THEN [st EXCEPT !.part = parts[2]]
    ELSE place_block([s EXCEPT !.current_10q_part = st.part], st, block,
                     header_info(block, parts, m))

extract_block(s, st, block) ==
    extract_parsed(s, st, block, split_colon(block.section_hint),
                   pattern_match(s.pattern, block.text))

RECURSIVE extract_loop(_, _, _, _)
extract_loop(s, blocks, i, st) ==
    IF i > Len(blocks) THEN st
    ELSE extract_loop(s, blocks, i + 1, extract_block(s, st, blocks[i]))

\* lines 341-352 with the whole-document section built from the preamble
close_sections_of_preamble(blocks, st) ==
    IF st.current # <<>> THEN Append(st.sections, st.current[1])
    ELSE IF st.sections # <<>> THEN st.sections
    ELSE IF blocks # <<>>
    THEN <<Section(<<"f","u","l","l","_","d","o","c">>, <<"F","u","l","l"," ","D","o","c","u","m","e","n","t">>, st.preamble_blocks, 1)>>
    ELSE <<>>

\* lines 341-352 with the whole-document section made for an empty list too
close_sections_even_empty(blocks, st) ==
    IF st.current # <<>> THEN Append(st.sections, st.current[1])
    ELSE IF st.sections # <<>> THEN st.sections
    ELSE <<Section(<<"f","u","l","l","_","d","o","c">>, <<"F","u","l","l"," ","D","o","c","u","m","e","n","t">>, blocks, 1)>>

\* lines 341-352, after the loop has ended in state st
close_sections(blocks, st) ==
    IF st.current # <<>> THEN Append(st.sections, st.current[1])
    ELSE IF st.sections # <<>> THEN st.sections
    ELSE IF blocks # <<>> THEN <<Section(<<"f","u","l","l","_","d","o","c">>, <<"F","u","l","l"," ","D","o","c","u","m","e","n","t">>, blocks, 1)>>
    ELSE IF st.preamble_blocks # <<>>
    THEN <<Section(<<"p","r","e","a","m","b","l","e">>, <<"D","o","c","u","m","e","n","t"," ","C","o","n","t","e","n","t">>, st.preamble_blocks, 1)>>
    ELSE <<>>

\* the loop's final state: the sections and the instance's _current_10q_part
sections_result(s, blocks, st) ==
    [self |-> [s EXCEPT !.current_10q_part = st.part],
     sections |-> close_sections(blocks, st)]

\* _extract_sections on instance s: the instance afterwards and the returned list
extract_sections(s, blocks) ==
    sections_result(s, blocks,
        extract_loop(s, blocks, 1,
            [sections |-> <<>>, current |-> <<>>, preamble_blocks |-> <<>>,
             part |-> s.current_10q_part]))

\* ------------------------------------------------------------------------
\* _chunk_section
\* ------------------------------------------------------------------------
DigitChar == <<"0","1","2","3","4","5","6","7","8","9">>

\* format(n, "04d") for 0 <= n < 10000
fmt04d(n) ==
    <<DigitChar[((n \div 1000) % 10) + 1], DigitChar[((n \div 100) % 10) + 1],
      DigitChar[((n \div 10) % 10) + 1], DigitChar[(n % 10) + 1]>>

\* flush that prepends the overlap whatever add_overlap says
flush_with_overlap_always(s, section, a, st, add_overlap) ==
    IF st.buffer = <<>> THEN st
    ELSE LET content == IF st.last_overlap # <<>> /\ st.chunks # <<>>
                        THEN st.last_overlap \o Flatten(st.buffer)
                        ELSE Flatten(st.buffer)
             chunk == [id |-> a.ticker \o <<"_">> \o s.form_type \o <<"_">> \o a.year \o <<"_">>
                              \o section.id \o <<"_">> \o fmt04d(Len(st.chunks)),
                       content |-> content,
                       ticker |-> a.ticker,
                       form_type |-> s.form_type,
                       year |-> a.year,
                       accession_number |-> a.accession,
                       section_id |-> section.id,
                       section_title |-> section.title,
                       page |-> st.buf_page,
                       has_table |-> st.buf_table,
                       word_count |-> Len(content)]
         IN  [st EXCEPT
                !.last_overlap = IF Len(content) > s.overlap_size
                                 THEN LastN(content, s.overlap_size)
                                 ELSE <<>>,
                !.chunks = Append(@, chunk),
                !.buffer = <<>>,
                !.buf_words = 0,
                !.buf_table = FALSE]

\* flush(add_overlap), lines 360-391, on the local state st of _chunk_section;
\* a holds the ticker, year and accession arguments
flush(s, section, a, st, add_overlap) ==
    IF st.buffer = <<>> THEN st
    ELSE LET joined == Flatten(st.buffer)
             content == IF add_overlap /\ st.last_overlap # <<>> /\ st.chunks # <<>>
                        THEN st.last_overlap \o joined
                        ELSE joined
             words_list == content
             chunk == [id |-> a.ticker \o <<"_">> \o s.form_type \o <<"_">> \o a.year \o <<"_">>
                              \o section.id \o <<"_">> \o fmt04d(Len(st.chunks)),
                       content |-> content,
                       ticker |-> a.ticker,
                       form_type |-> s.form_type,
                       year |-> a.year,
                       accession_number |-> a.accession,
                       section_id |-> section.id,
                       section_title |-> section.title,
                       page |-> st.buf_page,
                       has_table |-> st.buf_table,
                       word_count |-> Len(content)]
         IN  [st EXCEPT
                !.last_overlap = IF Len(words_list) > s.overlap_size
                                 THEN LastN(words_list, s.overlap_size)
                                 ELSE <<>>,
                !.chunks = Append(@, chunk),
                !.buffer = <<>>,
                !.buf_words = 0,
                !.buf_table = FALSE]

\* lines 418-424 without the flush between sentences
RECURSIVE sentence_loop_without_flush(_, _, _, _, _, _, _)
sentence_loop_without_flush(s, section, a, block, sents, j, st) ==
    IF j > Len(sents) THEN st
    ELSE sentence_loop_without_flush(s, section, a, block, sents, j + 1,
             [st EXCEPT !.buffer = Append(@, sents[j]), !.buf_words = @ + Len(sents[j])])

\* lines 418-424: the sentences sents[j..] of an oversized block
RECURSIVE sentence_loop(_, _, _, _, _, _, _)
sentence_loop(s, section, a, block, sents, j, st) ==
    IF j > Len(sents) THEN st
    ELSE LET sent == sents[j]
             sw == Len(sent)
             st1 == IF st.buf_words + sw > s.max_chunk_size
                    THEN [flush(s, section, a, st, TRUE) EXCEPT !.buf_page = block.page]
                    ELSE st
         IN  sentence_loop(s, section, a, block, sents, j + 1,
                 [st1 EXCEPT !.buffer = Append(@, sent), !.buf_words = @ + sw])

\* lines 393-429 without the test of lines 396-400 that skips a small table
chunk_block_keeping_small_tables(s, section, a, block, st) ==
    IF block.is_table
    THEN flush(s, section, a,
               [flush(s, section, a, st, TRUE) EXCEPT
                   !.buf_page = block.page,
                   !.buffer = <<block.text>>,
                   !.buf_words = Len(block.text),
                   !.buf_table = TRUE],
               FALSE)
    ELSE IF st.buf_words + Len(block.text) > s.max_chunk_size
    THEN sentence_loop(s, section, a, block, split_sentences(block.text), 1,
             IF st.buf_words >= s.target_chunk_size
             THEN [flush(s, section, a, st, TRUE) EXCEPT !.buf_page = block.page]
             ELSE st)
    ELSE [st EXCEPT
            !.buf_page = IF st.buffer = <<>> THEN block.page ELSE @,
            !.buffer = Append(@, block.text),
            !.buf_words = @ + Len(block.text)]

\* lines 393-429: the body of the loop over section.blocks, for one block
chunk_block(s, section, a, block, st) ==
    LET words == Len(block.text)
    IN  IF block.is_table /\ words < s.min_table_words
        THEN [st EXCEPT !.trivial_skipped = @ + 1]
        ELSE IF block.is_table
        THEN flush(s, section, a,
                   [flush(s, section, a, st, TRUE) EXCEPT
                       !.buf_page = block.page,
                       !.buffer = <<block.text>>,
                       !.buf_words = words,
                       !.buf_table = TRUE],
                   FALSE)
        ELSE IF st.buf_words + words > s.max_chunk_size
        THEN sentence_loop(s, section, a, block, split_sentences(block.text), 1,
                 IF st.buf_words >= s.target_chunk_size
                 THEN [flush(s, section, a, st, TRUE) EXCEPT !.buf_page = block.page]
                 ELSE st)
        ELSE [st EXCEPT
                !.buf_page = IF st.buffer = <<>> THEN block.page ELSE @,
                !.buffer = Append(@, block.text),
                !.buf_words = @ + words]

RECURSIVE chunk_loop(_, _, _, _, _)
chunk_loop(s, section, a, i, st) ==
    IF i > Len(section.blocks) THEN st
    ELSE chunk_loop(s, section, a, i + 1, chunk_block(s, section, a, section.blocks[i], st))

\* _chunk_section on instance s: the returned list and the tables it skipped
chunk_section(s, section, a) ==
    LET st == flush(s, section, a,
                    chunk_loop(s, section, a, 1,
                        [chunks |-> <<>>, buffer |-> <<>>, buf_words |-> 0,
                         buf_page |-> section.start_page, buf_table |-> FALSE,
                         last_overlap |-> <<>>, trivial_skipped |-> 0]),
                    TRUE)
    IN  [chunks |-> st.chunks, trivial_skipped |-> st.trivial_skipped]

\* ------------------------------------------------------------------------
\* _merge_undersized_chunks
\* ------------------------------------------------------------------------
\* the Chunk of lines 456-468 built without a new word_count
merged_chunk_old_count(first, second) ==
    [first EXCEPT !.content = first.content \o second.content,
                  !.has_table = first.has_table \/ second.has_table]

\* the Chunk of lines 456-468 with the two contents joined the other way round
merged_chunk_second_first(first, second) ==
    LET merged_content == second.content \o first.content
    IN  [first EXCEPT !.content = merged_content,
                      !.has_table = first.has_table \/ second.has_table,
                      !.word_count = Len(merged_content)]

\* the Chunk built at lines 456-468 and 485-497: first keeps its id and page
merged_chunk(first, second) ==
    LET merged_content == first.content \o second.content
    IN  [first EXCEPT !.content = merged_content,
                      !.has_table = first.has_table \/ second.has_table,
                      !.word_count = Len(merged_content)]

RECURSIVE merge_loop(_, _, _, _, _)
merge_loop(s, chunks, i, merged, count) ==
    IF i > Len(chunks) THEN [merged |-> merged, merged_undersized |-> count]
    ELSE LET chunk == chunks[i]
             forward == /\ i + 1 <= Len(chunks)
                        /\ chunks[i + 1].section_id = chunk.section_id
                        /\ Len(chunk.content \o chunks[i + 1].content) <= s.max_chunk_size
             backward == /\ merged # <<>>
                         /\ merged[Len(merged)].section_id = chunk.section_id
                         /\ ~merged[Len(merged)].has_table
                         /\ Len(merged[Len(merged)].content \o chunk.content) <= s.max_chunk_size
         IN  IF chunk.word_count < s.min_chunk_size /\ ~chunk.has_table /\ forward
             THEN merge_loop(s, [chunks EXCEPT ![i + 1] = merged_chunk(chunk, chunks[i + 1])],
                             i + 1, merged, count + 1)
             ELSE IF chunk.word_count < s.min_chunk_size /\ ~chunk.has_table /\ backward
             THEN merge_loop(s, chunks, i + 1,
                             [merged EXCEPT ![Len(merged)] = merged_chunk(merged[Len(merged)], chunk)],
                             count + 1)
             ELSE merge_loop(s, chunks, i + 1, Append(merged, chunk), count)

\* _merge_undersized_chunks without the size conditions of lines 455 and 484
merge_undersized_chunks_of_any_size(s, chunks) ==
    merge_loop([s EXCEPT !.max_chunk_size = Len(Flatten([k \in 1..Len(chunks) |-> chunks[k].content]))],
               chunks, 1, <<>>, 0)

\* _merge_undersized_chunks: the returned list and the number of merges
merge_undersized_chunks(s, chunks) == merge_loop(s, chunks, 1, <<>>, 0)

\* ------------------------------------------------------------------------
\* process
\* ------------------------------------------------------------------------
\* lines 199-203: the chunks of all sections, in order
RECURSIVE chunk_sections(_, _, _, _, _)
chunk_sections(s, sections, a, i, acc) ==
    IF i > Len(sections) THEN acc
    ELSE LET r == chunk_section(s, sections[i], a)
         IN  chunk_sections(s, sections, a, i + 1,
                 [chunks |-> acc.chunks \o r.chunks,
                  trivial_skipped |-> acc.trivial_skipped + r.trivial_skipped])

\* The stages of process. Each takes the frame fr of the call (the instance and
\* the locals set so far) and returns the frame after its lines.

\* line 191
stage_filter(fr, f) == [fr EXCEPT !.self = f.self, !.filtered = f.filtered]

\* lines 196-197
stage_sections(fr, e) ==
    [fr EXCEPT !.self = [e.self EXCEPT !.stats.sections = Len(e.sections)],
               !.sections = e.sections]

\* lines 199-203
stage_chunks(fr, c) ==
    [fr EXCEPT !.self.stats.trivial_skipped = @ + c.trivial_skipped,
               !.chunks = c.chunks]

\* lines 206-219 with the counters taken from the list before the merge
stage_merge_counting_unmerged(fr, m) ==
    [fr EXCEPT
        !.self.stats.merged_undersized = @ + m.merged_undersized,
        !.self.stats.chunks = Len(fr.chunks),
        !.self.stats.tables = Cardinality({k \in 1..Len(fr.chunks) : fr.chunks[k].has_table}),
        !.result = m.merged]

\* lines 206-219
stage_merge(fr, m) ==
    [fr EXCEPT
        !.self.stats.merged_undersized = @ + m.merged_undersized,
        !.self.stats.chunks = Len(m.merged),
        !.self.stats.tables = Cardinality({k \in 1..Len(m.merged) : m.merged[k].has_table}),
        !.result = m.merged]

process_merge(fr) == stage_merge(fr, merge_undersized_chunks(fr.self, fr.chunks))

process_chunks(fr, a) ==
    process_merge(stage_chunks(fr,
        chunk_sections(fr.self, fr.sections, a, 1, [chunks |-> <<>>, trivial_skipped |-> 0])))

process_sections(fr, a) ==
    process_chunks(stage_sections(fr, extract_sections(fr.self, fr.filtered)), a)

process_filter(fr, a) ==
    process_sections(stage_filter(fr, filter_boilerplate(fr.self, a.blocks)), a)

\* process(blocks, form_type, accession, ticker, year) on instance s, with the
\* arguments in a: the instance afterwards, the returned list (result) and the
\* values of the locals filtered_blocks, sections and chunks (before the merge)
process(s, a) ==
    process_filter([self |-> process_reset(s, a.form_type), filtered |-> <<>>,
                    sections |-> <<>>, chunks |-> <<>>, result |-> <<>>], a)

\* ------------------------------------------------------------------------
\* SECParser: construction
\* ------------------------------------------------------------------------
Block(text, type, page, is_table, section_hint) ==
    [text |-> text, type |-> type, page |-> page, is_table |-> is_table,
     section_hint |-> section_hint]

\* FORM_SECTION_PATTERNS: for each form the regular expressions, by name, with
\* their header types; the 10-K and the 10-Q lists are equal
FORM_SECTION_PATTERNS ==
       <<"1","0","-","K">> :> <<[re |-> "item_10k", header_type |-> <<"i","t","e","m">>],
                    [re |-> "part", header_type |-> <<"p","a","r","t">>]>>
    @@ <<"1","0","-","Q">> :> <<[re |-> "item_10k", header_type |-> <<"i","t","e","m">>],
                    [re |-> "part", header_type |-> <<"p","a","r","t">>]>>
    @@ <<"8","-","K">>  :> <<[re |-> "item_8k", header_type |-> <<"i","t","e","m">>],
                    [re |-> "section", header_type |-> <<"s","e","c","t","i","o","n">>],
                    [re |-> "forward_looking", header_type |-> <<"f","o","r","w","a","r","d","_","l","o","o","k","i","n","g">>]>>

\* _compile_section_patterns for the form type form_type
compile_section_patterns(form_type) ==
    Get(FORM_SECTION_PATTERNS, form_type, FORM_SECTION_PATTERNS[<<"1","0","-","K">>])

\* SECParser(form_type=form_type); the entries of self.stats are fields of the
\* record, min_text_len and max_table_rows have their defaults
SECParser(form_type) ==
    [min_text_len |-> 10,
     form_type |-> upper(form_type),
     blocks |-> 0, tables |-> 0, xbrl_noise_skipped |-> 0, duplicates_removed |-> 0,
     pages |-> 1,
     seen_sentences |-> {},
     current_10q_part |-> <<"I">>,
     section_patterns |-> compile_section_patterns(upper(form_type))]

\* SECParser()
parser_init == SECParser(<<"1","0","-","K">>)

\* set_form_type
set_form_type(p, form_type) ==
    [p EXCEPT !.form_type = upper(form_type),
              !.current_10q_part = <<"I">>,
              !.section_patterns = compile_section_patterns(upper(form_type))]

\* ------------------------------------------------------------------------
\* SECParser: the text deduplicator
\* ------------------------------------------------------------------------

\* words[i:i+n] for a 0-based i
Slice(words, i, n) == SubSeq(words, i + 1, i + n)

\* lines 300-312: one pass of the while loop, for phrases of n words
RECURSIVE phrase_pass(_, _, _, _, _)
phrase_pass(words, n, i, result, removed) ==
    IF i >= Len(words) THEN [words |-> result, removed |-> removed]
    ELSE IF /\ i + 2 * n <= Len(words)
            /\ lower(Chars(Slice(words, i, n))) = lower(Chars(Slice(words, i + n, n)))
            /\ Len(Chars(Slice(words, i, n))) > 10
    THEN phrase_pass(words, n, i + 2 * n, result \o Slice(words, i, n), removed + 1)
    ELSE phrase_pass(words, n, i + 1, Append(result, words[i + 1]), removed)

\* lines 298-313: for n in range(8, 1, -1), from n downwards
RECURSIVE phrase_loop(_, _)
phrase_loop(r, n) ==
    IF n < 2 THEN r
    ELSE phrase_loop(phrase_pass(r.words, n, 0, <<>>, r.removed), n - 1)

\* the parser p once the loop has ended in r, and the text returned
phrases_result(p, r) ==
    [self |-> [p EXCEPT !.duplicates_removed = @ + r.removed], text |-> r.words]

\* _remove_consecutive_duplicates
remove_consecutive_duplicates(p, text) ==
    IF Len(text) < 4 THEN [self |-> p, text |-> text]
    ELSE phrases_result(p, phrase_loop([words |-> text, removed |-> 0], 8))

\* lines 280-287: the loop over the sentences, from the j-th
RECURSIVE sentence_dedup(_, _, _, _)
sentence_dedup(p, sentences, j, unique_sentences) ==
    IF j > Len(sentences) THEN [self |-> p, text |-> Flatten(unique_sentences)]
    ELSE IF /\ Len(lower(Chars(sentences[j]))) > 20
            /\ lower(Chars(sentences[j])) \in p.seen_sentences
    THEN sentence_dedup([p EXCEPT !.duplicates_removed = @ + 1], sentences, j + 1,
                        unique_sentences)
    ELSE sentence_dedup(
             IF Len(lower(Chars(sentences[j]))) > 20
             THEN [p EXCEPT !.seen_sentences = @ \cup {lower(Chars(sentences[j]))}]
             ELSE p,
             sentences, j + 1, Append(unique_sentences, sentences[j]))

\* lines 276-289 with the set of seen sentences emptied before each text
dedup_sentences_of_this_text(r) ==
    sentence_dedup([r.self EXCEPT !.seen_sentences = {}], split_sentences(r.text), 1, <<>>)

\* lines 276-289, on the result r of _remove_consecutive_duplicates
dedup_sentences(r) == sentence_dedup(r.self, split_sentences(r.text), 1, <<>>)

\* _deduplicate_text on parser p: the parser afterwards and the returned text
deduplicate_text(p, text) == dedup_sentences(remove_consecutive_duplicates(p, text))

\* ------------------------------------------------------------------------
\* SECParser: header detection and parse
\* ------------------------------------------------------------------------
WordChars ==
    LowerLetters \cup Digits \cup {"_"} \cup
    {"A","B","C","D","E","F","G","H","I","J","K","L","M",
     "N","O","P","Q","R","S","T","U","V","W","X","Y","Z"}

\* whether the word w is prefix followed by one or more word characters
IsToken(w, prefix) ==
    /\ StartsWith(lower(w), prefix)
    /\ Len(w) > Len(prefix)
    /\ Range(DropN(w, Len(prefix))) \subseteq WordChars

\* XBRL_CRUFT_RE.sub('', text).strip(), for texts in which a unit or prefix
\* (iso4217:\w+, xbrli:\w+) is a word of its own; XBRL_REFERENCE_RE matches
\* "Reference <n>: http://www.xbrl.org/...", which no text here holds
XBRL_CRUFT_RE_sub(text) ==
    SelectSeq(text, LAMBDA w : ~(IsToken(w, <<"i","s","o","4","2","1","7",":">>) \/ IsToken(w, <<"x","b","r","l","i",":">>)))

\* _is_xbrl_noise: two or more matches of XBRL_NOISE_RE; of its alternatives
\* the texts here can hold \bdei_\w+\b and \bus-gaap_\w+\b only
is_xbrl_noise(text) ==
    Cardinality({i \in 1..Len(text) :
                    IsToken(text[i], <<"d","e","i","_">>) \/ IsToken(text[i], <<"u","s","-","g","a","a","p","_">>)}) >= 2

\* the text with the case of a leading "item" as the chunker's pattern wants
\* it: the parser compiles the same expression with re.IGNORECASE
item_ignoring_case(text) ==
    IF text # <<>> /\ lower(TakeN(text[1], 4)) = <<"i","t","e","m">>
    THEN <<<<"I","T","E","M">> \o DropN(text[1], 4)>> \o Tail(text)
    ELSE text

\* \.?\s*[-.]?\s*(.*)$ on the characters s: group (.*), stripped
header_rest(s) == SkipSpace(SkipOne(SkipSpace(SkipOne(s, {"."})), {"-", "."}))

NoMatch == [matched |-> FALSE, lastindex |-> 0, group1 |-> <<>>, group2 |-> <<>>]

\*   ^(?:PART|Part)\s+([IVX]+)\.?\s*[-.]?\s*(.*)$   with re.IGNORECASE
part_match(s) ==
    LET r0 == DropN(s, 4)
        r1 == SkipSpace(r0)
        n == SpanLen(r1, {"I", "V", "X", "i", "v", "x"}, Len(r1))
    IN  IF StartsWith(lower(s), <<"p","a","r","t">>) /\ Len(r1) < Len(r0) /\ n > 0
        THEN [matched |-> TRUE, lastindex |-> 2,
              group1 |-> TakeN(r1, n), group2 |-> header_rest(DropN(r1, n))]
        ELSE NoMatch

\*   ^(?:SECTION|Section)\s*(\d+)\.?\s*[-.]?\s*(.*)$   with re.IGNORECASE
section_match(s) ==
    LET r0 == SkipSpace(DropN(s, 7))
        n == SpanLen(r0, Digits, Len(r0))
    IN  IF StartsWith(lower(s), <<"s","e","c","t","i","o","n">>) /\ n > 0
        THEN [matched |-> TRUE, lastindex |-> 2,
              group1 |-> TakeN(r0, n), group2 |-> header_rest(DropN(r0, n))]
        ELSE NoMatch

\*   ^(?:Forward.Looking\s+Statements?)(.*)$   with re.IGNORECASE
forward_looking_match(s) ==
    LET r0 == DropN(s, 15)
        r1 == SkipSpace(r0)
        r2 == SkipOne(DropN(r1, 9), {"s", "S"})
    IN  IF /\ StartsWith(lower(s), <<"f","o","r","w","a","r","d">>) /\ Len(s) > 7 /\ s[8] # "\n"
           /\ StartsWith(lower(DropN(s, 8)), <<"l","o","o","k","i","n","g">>)
           /\ Len(r1) < Len(r0)
           /\ StartsWith(lower(r1), <<"s","t","a","t","e","m","e","n","t">>)
        THEN [matched |-> TRUE, lastindex |-> 1, group1 |-> r2, group2 |-> <<>>]
        ELSE NoMatch

\* the match of an item pattern as a match of the parser
item_match(m) ==
    [matched |-> m.matched, lastindex |-> IF m.matched THEN 2 ELSE 0,
     group1 |-> m.group1, group2 |-> m.group2]

\* pattern.match(text.strip()) for the compiled expression named re
section_pattern_match(re, text) ==
    CASE re = "part" -> part_match(Chars(text))
      [] re = "section" -> section_match(Chars(text))
      [] re = "forward_looking" -> forward_looking_match(Chars(text))
      [] OTHER -> item_match(pattern_match(re, item_ignoring_case(text)))

\* lines 167-172: the standard title of a header whose own title is short
standard_title(p, header_type, section_num, section_title) ==
    IF Len(section_title) < 5
    THEN IF p.form_type = <<"8","-","K">> /\ section_num \in DOMAIN ITEM_TITLES_8K
         THEN ITEM_TITLES_8K[section_num]
         ELSE IF p.form_type = <<"1","0","-","Q">> /\ header_type = <<"i","t","e","m">>
         THEN Get(Get(ITEM_TITLES_10Q, p.current_10q_part, <<>>), section_num, <<>>)
         ELSE section_title
    ELSE section_title

\* lines 159-174, for a pattern that matched
detected(p, header_type, section_num, section_title) ==
    [self |-> p, found |-> TRUE, section_num |-> section_num,
     section_title |-> standard_title(p, header_type, section_num, section_title),
     header_type |-> header_type]

\* lines 155-175: the loop over self._section_patterns from the k-th, m being
\* the match of the k-th
RECURSIVE detect_from(_, _, _, _)
detect_from(p, text, k, m) ==
    IF m.matched
    THEN detected(IF p.form_type = <<"1","0","-","Q">> /\ p.section_patterns[k].header_type = <<"p","a","r","t">>
                  THEN [p EXCEPT !.current_10q_part = upper(m.group1)]
                  ELSE p,
                  p.section_patterns[k].header_type,
                  IF m.lastindex >= 1 THEN upper(m.group1) ELSE <<>>,
                  IF m.lastindex >= 2 THEN m.group2 ELSE <<>>)
    ELSE IF k = Len(p.section_patterns)
    THEN [self |-> p, found |-> FALSE, section_num |-> <<>>, section_title |-> <<>>,
          header_type |-> <<>>]
    ELSE detect_from(p, text, k + 1,
                     section_pattern_match(p.section_patterns[k + 1].re, text))

\* _detect_section_header on parser p: the parser afterwards and the result
detect_section_header(p, text) ==
    detect_from(p, text, 1, section_pattern_match(p.section_patterns[1].re, text))

\* an element of the document as BeautifulSoup hands it to parse: its tag, the
\* text get_text returns (for a table the markdown _table_to_md returns, empty
\* for a table of fewer than two rows) and whether its style holds page-break
Element(name, text, page_break) == [name |-> name, text |-> text, page_break |-> page_break]

\* parse, lines 183-188, keeping the sentences seen by earlier calls
parse_reset_keeping_seen(p, form_type) ==
    [(IF form_type # <<>> THEN set_form_type(p, form_type) ELSE p) EXCEPT
        !.blocks = 0, !.tables = 0, !.xbrl_noise_skipped = 0, !.duplicates_removed = 0,
        !.pages = 1,
        !.current_10q_part = <<"I">>]

\* parse, lines 183-188: the form_type argument (the empty tuple when absent)
\* and the reset of the per-document state
parse_reset(p, form_type) ==
    [(IF form_type # <<>> THEN set_form_type(p, form_type) ELSE p) EXCEPT
        !.blocks = 0, !.tables = 0, !.xbrl_noise_skipped = 0, !.duplicates_removed = 0,
        !.pages = 1,
        !.seen_sentences = {},
        !.current_10q_part = <<"I">>]

\* lines 213-220: the markdown of the tables that are kept
table_list(content) ==
    SelectSeq([k \in 1..Len(content) |-> IF content[k].name = "table" THEN content[k].text ELSE <<>>],
              LAMBDA md : md # <<>> /\ ~is_xbrl_noise(md))

\* lines 248-255: the block for a text that is long enough and no noise, d
\* being the result of _detect_section_header
element_block(el, page, blocks, text, d) ==
    [self |-> d.self, page |-> page,
     blocks |-> Append(blocks,
                       IF d.found
                       THEN Block(text, "item_header", page, FALSE,
                                  d.header_type \o <<":">> \o d.section_num)
                       ELSE Block(text,
                                  IF el.name \in {"h1", "h2", "h3", "h4"} THEN "header" ELSE "text",
                                  page, FALSE, <<>>))]

\* lines 239-255, r being the result of _deduplicate_text
element_text(el, page, blocks, r) ==
    IF Len(Chars(r.text)) > r.self.min_text_len
    THEN IF is_xbrl_noise(r.text)
         THEN [self |-> [r.self EXCEPT !.xbrl_noise_skipped = @ + 1],
               page |-> page, blocks |-> blocks]
         ELSE element_block(el, page, blocks, r.text, detect_section_header(r.self, r.text))
    ELSE [self |-> r.self, page |-> page, blocks |-> blocks]

\* lines 227-255: the body of the loop over the elements; the tables were
\* removed from the document before
element_step(el, st) ==
    IF el.name = "table" THEN st
    ELSE IF el.name = "hr" \/ el.page_break THEN [st EXCEPT !.page = @ + 1]
    ELSE element_text(el, st.page, st.blocks,
                      deduplicate_text(st.self, XBRL_CRUFT_RE_sub(el.text)))

RECURSIVE element_loop(_, _, _)
element_loop(content, i, st) ==
    IF i > Len(content) THEN st
    ELSE element_loop(content, i + 1, element_step(content[i], st))

\* lines 258-263 with the tables put on page 1
append_tables_on_first_page(st, tables) ==
    [self |-> [st.self EXCEPT !.tables = @ + Len(tables),
                              !.blocks = Len(st.blocks) + Len(tables),
                              !.pages = st.page],
     blocks |-> st.blocks \o
                [k \in 1..Len(tables) |-> Block(tables[k], "table", 1, TRUE, <<>>)]]

\* lines 258-263: the tables are appended and the counters set
append_tables(st, tables) ==
    [self |-> [st.self EXCEPT !.tables = @ + Len(tables),
                              !.blocks = Len(st.blocks) + Len(tables),
                              !.pages = st.page],
     blocks |-> st.blocks \o
                [k \in 1..Len(tables) |-> Block(tables[k], "table", st.page, TRUE, <<>>)]]

\* parse(content, form_type) on parser p: the parser afterwards and the
\* returned blocks
parse(p, content, form_type) ==
    append_tables(element_loop(content, 1,
                               [self |-> parse_reset(p, form_type), page |-> 1,
                                blocks |-> <<>>]),
                  table_list(content))

\* ------------------------------------------------------------------------
\* SnowflakeService: companies
\* ------------------------------------------------------------------------
\* A table is a function from the ids of its rows to the rows; an absent
\* (None) field of a request is the string "None" and a float is the string of
\* its digits; a datetime is the reading of a clock that every writing call
\* advances.

\* the None a method returns in place of a response object
None == [none |-> TRUE]

\* the row INSERTed by create_company
company_row(company, now) ==
    [name |-> company.name, ticker |-> company.ticker,
     industry_id |-> company.industry_id, position_factor |-> company.position_factor,
     is_deleted |-> FALSE, created_at |-> now, updated_at |-> now]

\* CompanyResponse(id=..., ...) for the row of id
CompanyResponse(id, row) ==
    [id |-> id, name |-> row.name, ticker |-> row.ticker, industry_id |-> row.industry_id,
     position_factor |-> row.position_factor, is_deleted |-> row.is_deleted,
     created_at |-> row.created_at, updated_at |-> row.updated_at]

\* create_company with uuid4() = company_id: the table afterwards and the result
create_company(table, company, company_id, now) ==
    [table |-> table @@ (company_id :> company_row(company, now)),
     result |-> CompanyResponse(company_id, company_row(company, now))]

\* get_company: SELECT ... WHERE id = %s AND is_deleted = FALSE
get_company(table, company_id) ==
    IF company_id \in DOMAIN table /\ ~table[company_id].is_deleted
    THEN CompanyResponse(company_id, table[company_id])
    ELSE None

\* the ids in ids by descending created_at
RECURSIVE by_created_at_desc(_, _)
by_created_at_desc(table, ids) ==
    IF ids = {} THEN <<>>
    ELSE LET first == CHOOSE i \in ids :
                          \A j \in ids : table[j].created_at <= table[i].created_at
         IN  <<first>> \o by_created_at_desc(table, ids \ {first})

\* the rows of WHERE is_deleted = FALSE [AND industry_id = %s]
listed_ids(table, industry_id) ==
    {i \in DOMAIN table :
        /\ ~table[i].is_deleted
        /\ industry_id # "None" => table[i].industry_id = industry_id}

\* ORDER BY created_at DESC LIMIT %s OFFSET %s on the ordered ids
page_of(ordered, skip, limit) == TakeN(DropN(ordered, Min(skip, Len(ordered))), limit)

\* the pair list_companies returns, for the ids of the fetched rows
listed(table, page, total) ==
    [companies |-> [k \in 1..Len(page) |-> CompanyResponse(page[k], table[page[k]])],
     total |-> total]

\* list_companies
list_companies(table, skip, limit, industry_id) ==
    listed(table,
           page_of(by_created_at_desc(table, listed_ids(table, industry_id)), skip, limit),
           Cardinality(listed_ids(table, industry_id)))

\* the row after UPDATE companies SET <the fields that are not None>, updated_at
updated_row(row, company, now) ==
    [row EXCEPT
        !.name = IF company.name # "None" THEN company.name ELSE @,
        !.ticker = IF company.ticker # "None" THEN company.ticker ELSE @,
        !.industry_id = IF company.industry_id # "None" THEN company.industry_id ELSE @,
        !.position_factor = IF company.position_factor # "None"
                            THEN company.position_factor ELSE @,
        !.updated_at = now]

\* whether update_company finds nothing to update
no_updates(company) ==
    /\ company.name = "None" /\ company.ticker = "None"
    /\ company.industry_id = "None" /\ company.position_factor = "None"

\* update_company with UPDATE ... WHERE id = %s, whether deleted or not
update_company_any_row(table, company_id, company, now) ==
    IF no_updates(company) \/ company_id \notin DOMAIN table
    THEN [table |-> table, result |-> get_company(table, company_id)]
    ELSE [table |-> [table EXCEPT ![company_id] = updated_row(@, company, now)],
          result |-> get_company([table EXCEPT ![company_id] = updated_row(@, company, now)],
                                 company_id)]

\* update_company: the table afterwards and the result
update_company(table, company_id, company, now) ==
    IF no_updates(company) \/ company_id \notin DOMAIN table \/ table[company_id].is_deleted
    THEN [table |-> table, result |-> get_company(table, company_id)]
    ELSE [table |-> [table EXCEPT ![company_id] = updated_row(@, company, now)],
          result |-> get_company([table EXCEPT ![company_id] = updated_row(@, company, now)],
                                 company_id)]

\* delete_company: the table afterwards and cur.rowcount > 0
delete_company(table, company_id, now) ==
    IF company_id \in DOMAIN table /\ ~table[company_id].is_deleted
    THEN [table |-> [table EXCEPT ![company_id].is_deleted = TRUE,
                                  ![company_id].updated_at = now],
          result |-> TRUE]
    ELSE [table |-> table, result |-> FALSE]

\* ------------------------------------------------------------------------
\* SnowflakeService: assessments and dimension scores
\* ------------------------------------------------------------------------
\* class Dimension
Dimension ==
    {"data_infrastructure", "ai_governance", "technology_stack", "talent_skills",
     "leadership_vision", "use_case_portfolio", "culture_change"}

\* class AssessmentStatus
AssessmentStatus == {"draft", "in_progress", "submitted", "approved", "superseded"}

\* DIMENSION_WEIGHTS; a weight is a number of ten-thousandths
DIMENSION_WEIGHTS ==
    [d \in Dimension |->
        CASE d = "data_infrastructure" -> 2500
          [] d = "ai_governance" -> 2000
          [] d = "technology_stack" -> 1500
          [] d = "talent_skills" -> 1500
          [] d = "leadership_vision" -> 1000
          [] d = "use_case_portfolio" -> 1000
          [] d = "culture_change" -> 500]

\* DimensionScoreBase.set_default_weight; a request without a weight is a
\* record without the field
set_default_weight(score) ==
    IF "weight" \in DOMAIN score
    THEN score
    ELSE [assessment_id |-> score.assessment_id, dimension |-> score.dimension,
          weight |-> DIMENSION_WEIGHTS[score.dimension]]

\* The dimension_scores table is the bag of its rows without their uuid and
\* the columns no operation here reads: a function from
\* [assessment_id, dimension, weight] to the number of such rows.

\* create_dimension_score: the table with the row added
create_dimension_score(table, score) ==
    LET row == [assessment_id |-> score.assessment_id, dimension |-> score.dimension,
                weight |-> set_default_weight(score).weight]
    IN  IF row \in DOMAIN table THEN [table EXCEPT ![row] = @ + 1] ELSE table @@ (row :> 1)

\* get_dimension_scores: the rows of WHERE assessment_id = %s, as a bag
get_dimension_scores(table, assessment_id) ==
    [row \in {r \in DOMAIN table : r.assessment_id = assessment_id} |-> table[row]]

\* len(scores)
RECURSIVE bag_size(_, _)
bag_size(scores, rows) ==
    IF rows = {} THEN 0
    ELSE LET r == CHOOSE r \in rows : TRUE
         IN  scores[r] + bag_size(scores, rows \ {r})

\* sum(s.weight for s in scores)
RECURSIVE total_weight(_, _)
total_weight(scores, rows) ==
    IF rows = {} THEN 0
    ELSE LET r == CHOOSE r \in rows : TRUE
         IN  scores[r] * r.weight + total_weight(scores, rows \ {r})

Abs(x) == IF x < 0 THEN 0 - x ELSE x

\* the errors of validate_assessment_complete for the scores it fetched
validation_errors(scores) ==
    (IF bag_size(scores, DOMAIN scores) # 7 THEN {"Expected 7 dimensions"} ELSE {})
    \cup (IF Dimension \ {r.dimension : r \in DOMAIN scores} # {} THEN {"Missing"} ELSE {})
    \cup (IF Abs(total_weight(scores, DOMAIN scores) - 10000) > 10
          THEN {"Weights sum"} ELSE {})

\* validate_assessment_complete: is_valid
validate_assessment_complete(table, assessment_id) ==
    validation_errors(get_dimension_scores(table, assessment_id)) = {}

\* create_assessment with uuid4() = assessment_id; of the row only the status
\* is written again
create_assessment(assessments, assessment_id) ==
    assessments @@ (assessment_id :> [status |-> "draft"])

\* get_assessment
get_assessment(assessments, assessment_id) ==
    IF assessment_id \in DOMAIN assessments
    THEN [id |-> assessment_id, status |-> assessments[assessment_id].status]
    ELSE None

\* lines 275-284 of update_assessment_status: the UPDATE and the result
set_status(assessments, assessment_id, new_status) ==
    IF assessment_id \in DOMAIN assessments
    THEN [assessments |-> [assessments EXCEPT ![assessment_id].status = new_status],
          raised |-> "None",
          result |-> get_assessment([assessments EXCEPT ![assessment_id].status = new_status],
                                    assessment_id)]
    ELSE [assessments |-> assessments, raised |-> "None", result |-> None]

\* update_assessment_status that validates after the UPDATE
update_assessment_status_then_validate(assessments, scores, assessment_id, new_status) ==
    IF new_status \notin AssessmentStatus
    THEN [assessments |-> assessments, raised |-> "ValueError", result |-> None]
    ELSE IF new_status = "submitted" /\ ~validate_assessment_complete(scores, assessment_id)
    THEN [assessments |-> set_status(assessments, assessment_id, new_status).assessments,
          raised |-> "ValueError", result |-> None]
    ELSE set_status(assessments, assessment_id, new_status)

\* update_assessment_status: the assessments afterwards, the exception raised
\* and the result
update_assessment_status(assessments, scores, assessment_id, new_status) ==
    IF new_status \notin AssessmentStatus
    THEN [assessments |-> assessments, raised |-> "ValueError", result |-> None]
    ELSE IF new_status = "submitted" /\ ~validate_assessment_complete(scores, assessment_id)
    THEN [assessments |-> assessments, raised |-> "ValueError", result |-> None]
    ELSE set_status(assessments, assessment_id, new_status)

\* routers/assessments.py, update_status: the HTTP status of the response
update_status(r) ==
    IF r.raised = "ValueError" THEN 400
    ELSE IF r.result = None THEN 404
    ELSE 200

\* ------------------------------------------------------------------------
\* Inputs: blocks, documents, constructor and call arguments
\* ------------------------------------------------------------------------
\* five words, one sentence; its fingerprint has 14 characters and is not tracked
T5 == Block(<<<<"a","a">>, <<"b","b">>, <<"c","c">>, <<"d","d">>, <<"e","e",".">>>>, "text", 1, FALSE, <<>>)

\* a sentence of two words and a sentence of five
S7 == Block(<<<<"f","f">>, <<"g","g",".">>, <<"h","h">>, <<"i","i">>, <<"j","j">>, <<"k","k">>, <<"l","l">>>>, "text", 2, FALSE, <<>>)

\* a sentence of seven words and a sentence of two
L9 == Block(<<<<"m","m">>, <<"n","n">>, <<"o","o">>, <<"p","p">>, <<"q","q">>, <<"r","r">>, <<"s","s",".">>, <<"t","t">>, <<"u","u">>>>, "text", 1, FALSE, <<>>)

\* one sentence of nine words
N9 == Block(<<<<"n","1">>, <<"n","2">>, <<"n","3">>, <<"n","4">>, <<"n","5">>, <<"n","6">>, <<"n","7">>, <<"n","8">>, <<"n","9",".">>>>, "text", 1, FALSE, <<>>)

\* a sentence of two words and a sentence of seven, on later pages
S9 == Block(<<<<"s","a">>, <<"s","b",".">>, <<"s","c">>, <<"s","d">>, <<"s","e">>, <<"s","f">>, <<"s","g">>, <<"s","h">>, <<"s","i">>>>, "text", 2, FALSE, <<>>)

Q9 == Block(<<<<"q","a">>, <<"q","b",".">>, <<"q","c">>, <<"q","d">>, <<"q","e">>, <<"q","f">>, <<"q","g">>, <<"q","h">>, <<"q","i">>>>, "text", 3, FALSE, <<>>)

\* five words whose fingerprint has 29 characters and is tracked
LT == Block(<<<<"a","l","p","h","a">>, <<"b","r","a","v","o">>, <<"d","e","l","t","a">>, <<"g","a","m","m","a">>, <<"o","m","e","g","a">>>>, "text", 1, FALSE, <<>>)

\* a table of five words and a table of three
TB == Block(<<<<"|">>, <<"x","1">>, <<"|">>, <<"y","2">>, <<"|">>>>, "table", 2, TRUE, <<>>)

TS == Block(<<<<"|">>, <<"z">>, <<"|">>>>, "table", 2, TRUE, <<>>)

\* item headers as the parser marks them: bare, and with a heading text long
\* enough to pass the five-word filter
H1 == Block(<<<<"I","T","E","M">>, <<"1",".">>>>, "item_header", 1, FALSE, <<"i","t","e","m",":","1">>)

H1A == Block(<<<<"I","T","E","M">>, <<"1","A",".">>>>, "item_header", 1, FALSE, <<"i","t","e","m",":","1","A">>)

HL1 == Block(<<<<"I","T","E","M">>, <<"1",".">>, <<"B","u","s","i","n","e","s","s">>, <<"o","v","e","r","v","i","e","w">>, <<"a","n","d">>, <<"d","e","v","e","l","o","p","m","e","n","t">>>>, "item_header", 1, FALSE, <<"i","t","e","m",":","1">>)

HL1A == Block(<<<<"I","t","e","m">>, <<"1","A",".">>, <<"R","i","s","k">>, <<"F","a","c","t","o","r","s">>, <<"a","n","d">>, <<"o","t","h","e","r">>, <<"u","n","c","e","r","t","a","i","n","t","i","e","s">>>>, "item_header", 2, FALSE, <<"i","t","e","m",":","1","A">>)

HF1 == Block(<<<<"I","t","e","m">>, <<"1",".">>, <<"F","i","n","a","n","c","i","a","l">>, <<"S","t","a","t","e","m","e","n","t","s">>, <<"a","n","d">>, <<"r","e","l","a","t","e","d">>, <<"n","o","t","e","s">>>>, "item_header", 1, FALSE, <<"i","t","e","m",":","1">>)

HQ1 == Block(<<<<"I","t","e","m">>, <<"1",".">>, <<"L","e","g","a","l">>, <<"P","r","o","c","e","e","d","i","n","g","s">>, <<"a","n","d">>, <<"o","t","h","e","r">>, <<"m","a","t","t","e","r","s">>>>, "item_header", 2, FALSE, <<"i","t","e","m",":","1">>)

\* an item heading the parser did not mark: only the chunker's pattern sees it
R2 == Block(<<<<"I","t","e","m">>, <<"2">>, <<"-">>, <<"P","l","a","n","t">>, <<"s","i","t","e","s">>, <<"a","n","d">>, <<"o","f","f","i","c","e","s">>>>, "text", 2, FALSE, <<>>)

\* a marked header whose item number is in no table of titles
H99 == Block(<<<<"I","t","e","m">>, <<"9","9",".">>, <<"S","p","e","c","i","a","l">>, <<"m","a","t","t","e","r","s">>, <<"o","f">>, <<"t","h","e">>, <<"c","o","m","p","a","n","y">>>>, "item_header", 1, FALSE, <<"i","t","e","m",":","9","9">>)

\* part headers as the parser marks them
PI == Block(<<<<"P","A","R","T">>, <<"I">>>>, "item_header", 1, FALSE, <<"p","a","r","t",":","I">>)

PIIL == Block(<<<<"P","A","R","T">>, <<"I","I">>, <<"-">>, <<"O","T","H","E","R">>, <<"I","N","F","O","R","M","A","T","I","O","N">>>>, "item_header", 2, FALSE, <<"p","a","r","t",":","I","I">>)

\* a part header with a numeral beyond II, as the parser marks it
PIII == Block(<<<<"P","A","R","T">>, <<"I","I","I">>, <<"-">>, <<"E","x","h","i","b","i","t","s">>, <<"a","n","d">>, <<"o","t","h","e","r">>, <<"m","a","t","t","e","r","s">>>>, "item_header", 3, FALSE, <<"p","a","r","t",":","I","I","I">>)

\* a bare part header: BOILERPLATE_PATTERNS holds ^part\s+[ivx]+$
PII == Block(<<<<"P","A","R","T">>, <<"I","I">>>>, "item_header", 2, FALSE, <<"p","a","r","t",":","I","I">>)

\* elements of a filing: an item heading, an item heading numbered as in an
\* 8-K, a part heading, a section heading of an 8-K
EItem1 == Element("p", <<<<"I","t","e","m">>, <<"1",".">>, <<"B","u","s","i","n","e","s","s">>, <<"o","v","e","r","v","i","e","w">>, <<"h","e","r","e">>>>, FALSE)

EItem202 == Element("p", <<<<"i","t","e","m">>, <<"2",".","0","2">>, <<"R","e","s","u","l","t","s">>, <<"o","f">>, <<"O","p","e","r","a","t","i","o","n","s">>>>, FALSE)

EPart2 == Element("h2", <<<<"P","A","R","T">>, <<"I","I">>, <<"O","t","h","e","r">>, <<"I","n","f","o","r","m","a","t","i","o","n">>>>, FALSE)

ESection == Element("p", <<<<"S","e","c","t","i","o","n">>, <<"5">>, <<"C","o","r","p","o","r","a","t","e">>, <<"G","o","v","e","r","n","a","n","c","e">>>>, FALSE)

\* a sentence of more than 20 characters, and a container that repeats it
ELong == Element("p", <<<<"T","h","e">>, <<"c","o","m","p","a","n","y">>, <<"m","a","k","e","s">>, <<"m","a","n","y">>, <<"f","i","n","e">>, <<"p","r","o","d","u","c","t","s",".">>>>, FALSE)

EDiv == Element("div", <<<<"T","h","e">>, <<"c","o","m","p","a","n","y">>, <<"m","a","k","e","s">>, <<"m","a","n","y">>, <<"f","i","n","e">>, <<"p","r","o","d","u","c","t","s",".">>, <<"M","o","r","e">>, <<"f","o","l","l","o","w","s">>, <<"h","e","r","e">>, <<"t","o","d","a","y",".">>>>, FALSE)

\* a sentence that comes back in other case after another, which EDiv has too
ERepeat == Element("p", <<<<"S","a","l","e","s">>, <<"r","o","s","e">>, <<"v","e","r","y">>, <<"s","t","r","o","n","g","l","y",".">>, <<"M","o","r","e">>, <<"f","o","l","l","o","w","s">>, <<"h","e","r","e">>, <<"t","o","d","a","y",".">>, <<"S","A","L","E","S">>, <<"r","o","s","e">>, <<"v","e","r","y">>, <<"s","t","r","o","n","g","l","y",".">>>>, FALSE)

\* a rule, a page break, XBRL metadata and a table
EHr == Element("hr", <<>>, FALSE)

EBreak == Element("div", <<<<"C","o","n","t","i","n","u","e","d">>, <<"o","n">>, <<"t","h","e">>, <<"n","e","x","t">>, <<"p","a","g","e">>>>, TRUE)

ENoise == Element("p", <<<<"d","e","i","_","E","n","t","i","t","y","N","a","m","e">>, <<"u","s","-","g","a","a","p","_","A","s","s","e","t","s">>, <<"x","b","r","l","i",":","s","h","a","r","e","s">>>>, FALSE)

ETable == Element("table", <<<<"|">>, <<"Y","e","a","r">>, <<"|">>, <<"S","a","l","e","s">>, <<"|">>, <<"|","-","-","-","|","-","-","-","|">>, <<"|">>, <<"2","0","2","4">>, <<"|">>, <<"1","0">>, <<"|">>>>, FALSE)

MaxPackBlocks == 3

MaxHeaderBlocks == 4

MaxReuseBlocks == 2

MaxWords == 6

MaxFormBlocks == 2

MaxFormElements == 2

MaxParseElements == 2

MaxParses == 2

MaxCompanies == 2

MaxClock == 3

MaxCopies == 2

MaxTablesBlocks == 4

MaxFilingElements == 3

MaxPartsBlocks == 3

MaxItemsBlocks == 4
MaxOverrideBlocks == 2
MaxPackingBlocks == 4
MaxLongBlocks == 3

\* bodies and tables, for the packing and the merge
PackBlocks == {T5, S7, L9, TB, TS, HL1}

\* the headers of a 10-K and of a 10-Q
HeaderBlocks10K == {T5, H1, H1A, HL1, HL1A, R2}

HeaderBlocks10Q == {T5, PI, PII, PIIL, HF1, HQ1}

\* a document of sections with bodies and tables, long enough for a table after
\* a body and a section after that
TablesBlocks == {T5, S7, TB, TS, HL1}

\* the part headers of a 10-Q, an item header and a body
PartsBlocks == {T5, PI, PIIL, PIII, HQ1}

\* two headers of the same item number, as a 10-Q has them in its two parts,
\* the divider between the parts and a body
ItemsBlocks == {T5, HF1, PIIL, HQ1}
OverrideBlocks == {T5, S7, LT}
PackingBlocks == {T5, S9, TB, TS, HL1}

\* n times the word abcdefghi: with the separators, ten characters each
Filler(n) == [k \in 1..n |-> <<"a","b","c","d","e","f","g","h","i">>]

\* texts of more than 200 characters: LA and LB differ after the 200th
\* character only, LU is LA in capitals with punctuation, LM differs from LA
\* from the 151st character on
LA == Block(Filler(20) \o <<<<"e","n","d","a">>>>, "text", 1, FALSE, <<>>)
LB == Block(Filler(20) \o <<<<"e","n","d","b">>>>, "text", 1, FALSE, <<>>)
LU == Block([k \in 1..20 |-> <<"A","B","C","D","E","F","G","H","I">>] \o <<<<"E","n","d","A","!">>>>, "text", 1, FALSE, <<>>)
LM == Block(Filler(15) \o <<<<"m","i","d","p","o","i","n","t">>>> \o Filler(5), "text", 1, FALSE, <<>>)

LongBlocks == {T5, LA, LB, LU, LM}
OverrideForms == {<<>>, <<"1","0","-","K">>, <<"1","0","-","q">>}

\* blocks that leave a trace in the instance: a tracked fingerprint, a part
ReuseBlocks == {LT, PIIL, HQ1}

\* the elements of a filing whose form decides what is a header
FormElements == {EItem1, EItem202, EPart2, ESection, ELong, EDiv, EBreak, EHr, ETable}

\* the elements of one filing with repeated sentences, page breaks and a table
FilingElements == {ELong, EDiv, ERepeat, EHr, EBreak, ETable}

\* the elements that leave a trace in the parser
ParseElements == {EDiv, EPart2, ENoise, ETable}

\* blocks for an instance of another form
FormBlocks == {T5, H1A, HL1, HL1A, R2, H99, TB}

\* form types that are none of 10-K, 10-Q and 8-K
OtherForms == {<<"S","-","1">>, <<"1","0","-","k","/","a">>}

\* the form_type arguments of a reused parser: absent, or a lower-case 8-K
ParseForms == {<<>>, <<"8","-","k">>}

\* the company ids: those uuid4 hands out, in this order, and one more
CompanyIds == 1..(MaxCompanies + 1)

\* CompanyCreate requests
CompanyCreates ==
    {[name |-> "Acme", ticker |-> "ACM", industry_id |-> "industry-1", position_factor |-> "0.0"],
     [name |-> "Bolt", ticker |-> "None", industry_id |-> "industry-2", position_factor |-> "0.5"]}

\* CompanyUpdate requests: nothing set, the name, everything
CompanyUpdates ==
    {[name |-> "None", ticker |-> "None", industry_id |-> "None", position_factor |-> "None"],
     [name |-> "Acme Ltd", ticker |-> "None", industry_id |-> "None", position_factor |-> "None"],
     [name |-> "Bolt", ticker |-> "BLT", industry_id |-> "industry-1", position_factor |-> "0.5"]}

\* the skip, limit and industry_id arguments of list_companies
ListArgs ==
    {[skip |-> 0, limit |-> 100, industry_id |-> "None"],
     [skip |-> 1, limit |-> 1, industry_id |-> "None"],
     [skip |-> 0, limit |-> 100, industry_id |-> "industry-1"]}

\* the assessment ids: 1 is the one create_assessment makes, 2 has no row
AssessmentIds == {1, 2}

\* DimensionScoreCreate requests for assessment 1: every dimension with its
\* default weight, and culture_change with weights that keep the sum (0),
\* move it by 0.0005 and move it by 0.002; and one for assessment 2
ScoreCreates ==
    {[assessment_id |-> 1, dimension |-> d] : d \in Dimension}
    \cup {[assessment_id |-> 1, dimension |-> "culture_change", weight |-> w] :
              w \in {0, 505, 520}}
    \cup {[assessment_id |-> 2, dimension |-> "culture_change"]}

\* the status arguments of update_status
StatusArgs == {"submitted", "approved", "Submitted"}

CtorArgs(form_type, target, min_size, max_size, overlap, min_table_words) ==
    [form_type |-> form_type, target_chunk_size |-> target, min_chunk_size |-> min_size,
     max_chunk_size |-> max_size, overlap_size |-> overlap,
     min_table_words |-> min_table_words]

\* SECChunker(form_type): the sizes of FORM_CONFIGS, min_table_words = 75
DefaultCtor(form_type) == CtorArgs(form_type, 0, 0, 0, 0, 75)

\* SECChunker with every size given, so that small documents fill several chunks
PackCtors == {CtorArgs(<<"1","0","-","K">>, 5, 3, 6, 2, 4), CtorArgs(<<"1","0","-","K">>, 8, 6, 12, 2, 4)}

\* SECChunker with an overlap larger than max_chunk_size
WideOverlapCtor == CtorArgs(<<"1","0","-","K">>, 5, 3, 6, 8, 4)

WideOverlapBlocks == {T5, L9, N9}

\* SECChunker without overlap_size: the 50 words of the 10-K entry, more than
\* any chunk of these documents has, so that no chunk begins with an overlap
NoOverlapCtor == CtorArgs(<<"1","0","-","K">>, 5, 3, 8, 0, 4)

NoOverlapBlocks == {T5, S9, Q9}

Ctors ==
    PackCtors \cup {WideOverlapCtor, NoOverlapCtor, DefaultCtor(<<"1","0","-","K">>), DefaultCtor(<<"1","0","-","Q">>)}

\* the blocks a caller passes to an instance constructed with c, and how many
BlocksFor(c) ==
    IF c \in PackCtors THEN PackBlocks
    ELSE IF c = WideOverlapCtor THEN WideOverlapBlocks
    ELSE IF c = NoOverlapCtor THEN NoOverlapBlocks
    ELSE IF c.form_type = <<"1","0","-","Q">> THEN HeaderBlocks10Q
    ELSE HeaderBlocks10K

MaxBlocksFor(c) ==
    IF c \in PackCtors \cup {WideOverlapCtor, NoOverlapCtor} THEN MaxPackBlocks ELSE MaxHeaderBlocks

\* the form_type arguments of a reused instance: absent, or a lower-case 10-Q
ReuseForms == {<<>>, <<"1","0","-","q">>}

\* the words of the texts the parser deduplicates: 'alpha bravo.' has more than
\* 10 characters, a sentence of four words has more than 20
Words == {<<"a","l","p","h","a">>, <<"A","l","p","h","a">>, <<"b","r","a","v","o",".">>}

CallArgs(blocks, form_type) ==
    [blocks |-> blocks, form_type |-> form_type, accession |-> <<>>,
     ticker |-> <<"U","N","K","N","O","W","N">>, year |-> <<"2","0","2","5">>]

\* ------------------------------------------------------------------------
\* State and actions
\* ------------------------------------------------------------------------
VARIABLES
    self,       \* the SECChunker instance
    pc,         \* "build": the caller is assembling args; "done": process returned;
                \* "text", "once", "twice": no, one, two _deduplicate_text calls made
    ctor,       \* the arguments the instance was constructed with
    args,       \* the arguments of the coming (or the last) process call
    filtered,   \* process's local filtered_blocks
    sections,   \* process's local sections
    chunks,     \* process's local chunks before _merge_undersized_chunks
    result,     \* the list process returned
    forms,      \* the form_type arguments of all process calls on the instance
    prev,       \* the blocks of the previous process call (<<>> before the second)
    parser,     \* the SECParser instance
    content,    \* the elements of the filing the caller assembles for parse
    parse_form, \* the form_type argument of the coming (or the last) parse call
    parsed,     \* the blocks the last parse call returned
    parses,     \* the number of parse calls made on the instance
    seen_before,\* the instance's _seen_sentences when the caller took up the filing
    companies,  \* the companies table
    assessments,\* the assessments table
    dimension_scores, \* the dimension_scores table
    clock,      \* datetime.now of the last writing call
    response,   \* the last call, its arguments and what it returned
    tomb,       \* for each id delete_company returned True for, the row it left
    text,       \* the text the caller assembles for _deduplicate_text
    deduped     \* the texts the _deduplicate_text calls returned, in order

chunker_vars == <<self, ctor, args, filtered, sections, chunks, result, forms, prev>>

parse_vars == <<content, parse_form, parsed, parses, seen_before>>

parser_vars == <<parser, text, deduped, parse_vars>>

service_vars == <<companies, assessments, dimension_scores, clock, response, tomb>>

vars == <<pc, chunker_vars, parser_vars, service_vars>>

\* a constructed SECChunker and a caller about to assemble a block list
Start(c, form_type) ==
    /\ ctor = c
    /\ self = init(c)
    /\ args = CallArgs(<<>>, form_type)
    /\ filtered = <<>>
    /\ sections = <<>>
    /\ chunks = <<>>
    /\ result = <<>>
    /\ forms = {form_type}
    /\ prev = <<>>

\* a constructed SECParser and a caller about to assemble a text
StartParserWith(p, form_type) ==
    /\ parser = p
    /\ text = <<>>
    /\ deduped = <<>>
    /\ content = <<>>
    /\ parse_form = form_type
    /\ parsed = <<>>
    /\ parses = 0
    /\ seen_before = {}

StartParser == StartParserWith(parser_init, <<>>)

\* a database without companies, assessments and scores
StartService ==
    /\ companies = <<>>
    /\ assessments = <<>>
    /\ dimension_scores = <<>>
    /\ clock = 0
    /\ response = [op |-> "none"]
    /\ tomb = <<>>

Init == pc = "build" /\ StartParser /\ StartService /\ \E c \in Ctors : Start(c, <<>>)

InitReuse ==
    /\ pc = "build" /\ StartParser /\ StartService
    /\ \E f \in ReuseForms : Start(DefaultCtor(<<"1","0","-","K">>), f)

InitOverrides ==
    /\ pc = "build" /\ StartParser /\ StartService
    /\ \E f \in OverrideForms : Start(CtorArgs(<<"1","0","-","K">>, 5, 3, 6, 2, 4), f)

\* an instance with an overlap of one word and room for a merge
InitPacking ==
    /\ pc = "build" /\ StartParser /\ StartService
    /\ Start(CtorArgs(<<"1","0","-","K">>, 5, 4, 8, 1, 4), <<>>)

\* an instance about to get a document with long paragraphs
InitLong ==
    /\ pc = "build" /\ StartParser /\ StartService
    /\ Start(DefaultCtor(<<"1","0","-","K">>), <<>>)

InitDedup == pc = "text" /\ StartParser /\ StartService /\ Start(DefaultCtor(<<"1","0","-","K">>), <<>>)

\* an instance with small sizes about to get a document of sections and tables
InitTables ==
    /\ pc = "build" /\ StartParser /\ StartService
    /\ Start(CtorArgs(<<"1","0","-","K">>, 5, 3, 6, 2, 4), <<>>)

\* an instance for 10-Q filings about to get a document with part headers
InitParts ==
    /\ pc = "build" /\ StartParser /\ StartService
    /\ Start(DefaultCtor(<<"1","0","-","Q">>), <<>>)

\* an instance for 10-Q filings with small sizes, so that a body is no
\* undersized chunk
InitItems ==
    /\ pc = "build" /\ StartParser /\ StartService
    /\ Start(CtorArgs(<<"1","0","-","Q">>, 5, 3, 6, 2, 4), <<>>)

\* the service on an empty database
InitService == pc = "service" /\ StartParser /\ StartService /\ Start(DefaultCtor(<<"1","0","-","K">>), <<>>)

\* a chunker and a parser of a form that is none of the three, by construction
\* or by the form_type argument of the call; the caller takes up one of them
InitForms ==
    /\ pc \in {"build", "content"}
    /\ StartService
    /\ \E f \in OtherForms :
           \/ Start(DefaultCtor(f), <<>>) /\ StartParserWith(SECParser(f), <<>>)
           \/ Start(DefaultCtor(<<"1","0","-","Q">>), f) /\ StartParserWith(SECParser(<<"8","-","K">>), f)

\* a parser of a 10-K about to be used for one filing
InitFiling ==
    /\ pc = "content"
    /\ StartService
    /\ Start(DefaultCtor(<<"1","0","-","K">>), <<>>)
    /\ StartParserWith(SECParser(<<"1","0","-","K">>), <<>>)

\* a parser of a 10-K or a 10-Q about to be used for several filings
InitParse ==
    /\ pc = "content"
    /\ StartService
    /\ Start(DefaultCtor(<<"1","0","-","K">>), <<>>)
    /\ \E f \in {<<"1","0","-","K">>, <<"1","0","-","Q">>}, g \in ParseForms : StartParserWith(SECParser(f), g)

\* the caller appends block b to the list it will pass (at most max blocks)
AddBlock(b, max) ==
    /\ pc = "build"
    /\ Len(args.blocks) < max
    /\ args' = [args EXCEPT !.blocks = Append(@, b)]
    /\ UNCHANGED <<self, pc, ctor, filtered, sections, chunks, result, forms, prev>>
    /\ UNCHANGED parser_vars
    /\ UNCHANGED service_vars

\* SECChunker.process(args), from the call to the return
Process ==
    /\ pc = "build"
    /\ LET r == process(self, args)
       IN  /\ self' = r.self
           /\ filtered' = r.filtered
           /\ sections' = r.sections
           /\ chunks' = r.chunks
           /\ result' = r.result
    /\ pc' = "done"
    /\ UNCHANGED <<ctor, args, forms, prev>>
    /\ UNCHANGED parser_vars
    /\ UNCHANGED service_vars

\* the caller starts on the next document for the same instance
NextDocument(form_type) ==
    /\ pc = "done"
    /\ args' = CallArgs(<<>>, form_type)
    /\ forms' = forms \cup {form_type}
    /\ prev' = args.blocks
    /\ pc' = "build"
    /\ filtered' = <<>>
    /\ sections' = <<>>
    /\ chunks' = <<>>
    /\ result' = <<>>
    /\ UNCHANGED <<self, ctor>>
    /\ UNCHANGED parser_vars
    /\ UNCHANGED service_vars

\* the caller appends word w to the text it will pass
AddWord(w) ==
    /\ pc = "text"
    /\ Len(text) < MaxWords
    /\ text' = Append(text, w)
    /\ UNCHANGED <<pc, parser, deduped, parse_vars>>
    /\ UNCHANGED chunker_vars
    /\ UNCHANGED service_vars

\* SECParser._deduplicate_text(text)
Deduplicate ==
    /\ pc = "text"
    /\ LET r == deduplicate_text(parser, text)
       IN  parser' = r.self /\ deduped' = <<r.text>>
    /\ pc' = "once"
    /\ UNCHANGED <<text, parse_vars>>
    /\ UNCHANGED chunker_vars
    /\ UNCHANGED service_vars

\* _deduplicate_text on the text the first call returned, by the same parser
DeduplicateAgain ==
    /\ pc = "once"
    /\ LET r == deduplicate_text(parser, deduped[1])
       IN  parser' = r.self /\ deduped' = Append(deduped, r.text)
    /\ pc' = "twice"
    /\ UNCHANGED <<text, parse_vars>>
    /\ UNCHANGED chunker_vars
    /\ UNCHANGED service_vars

\* the same by a new SECParser()
DeduplicateAgainNew ==
    /\ pc = "once"
    /\ LET r == deduplicate_text(parser_init, deduped[1])
       IN  parser' = r.self /\ deduped' = Append(deduped, r.text)
    /\ pc' = "twice"
    /\ UNCHANGED <<text, parse_vars>>
    /\ UNCHANGED chunker_vars
    /\ UNCHANGED service_vars

\* the caller appends element e to the filing it will pass (at most max)
AddElement(e, max) ==
    /\ pc = "content"
    /\ Len(content) < max
    /\ content' = Append(content, e)
    /\ UNCHANGED <<pc, parser, text, deduped, parse_form, parsed, parses, seen_before>>
    /\ UNCHANGED chunker_vars
    /\ UNCHANGED service_vars

\* SECParser.parse(content, parse_form), from the call to the return
Parse ==
    /\ pc = "content"
    /\ LET r == parse(parser, content, parse_form)
       IN  parser' = r.self /\ parsed' = r.blocks
    /\ parses' = parses + 1
    /\ pc' = "parsed"
    /\ UNCHANGED <<text, deduped, content, parse_form, seen_before>>
    /\ UNCHANGED chunker_vars
    /\ UNCHANGED service_vars

\* the caller starts on the next filing for the same parser
NextContent(form_type) ==
    /\ pc = "parsed"
    /\ parses < MaxParses
    /\ content' = <<>>
    /\ parse_form' = form_type
    /\ parsed' = <<>>
    /\ seen_before' = parser.seen_sentences
    /\ pc' = "content"
    /\ UNCHANGED <<parser, text, deduped, parses>>
    /\ UNCHANGED chunker_vars
    /\ UNCHANGED service_vars

\* the rest of the state, which no call of the service touches
ServiceOnly == UNCHANGED <<pc, chunker_vars, parser_vars>>

\* SnowflakeService.create_company(company); uuid4 is the first unused id
CreateCompany(company) ==
    /\ pc = "service"
    /\ clock < MaxClock
    /\ Cardinality(DOMAIN companies) < MaxCompanies
    /\ LET r == create_company(companies, company, Cardinality(DOMAIN companies) + 1, clock + 1)
       IN  /\ companies' = r.table
           /\ response' = [op |-> "create_company", result |-> r.result,
                           earlier |-> DOMAIN tomb]
    /\ clock' = clock + 1
    /\ UNCHANGED <<assessments, dimension_scores, tomb>>
    /\ ServiceOnly

\* SnowflakeService.get_company(company_id)
GetCompany(company_id) ==
    /\ pc = "service"
    /\ response' = [op |-> "get_company", company_id |-> company_id,
                    result |-> get_company(companies, company_id),
                    earlier |-> DOMAIN tomb]
    /\ UNCHANGED <<companies, assessments, dimension_scores, clock, tomb>>
    /\ ServiceOnly

\* SnowflakeService.list_companies(skip, limit, industry_id)
ListCompanies(a) ==
    /\ pc = "service"
    /\ response' = [op |-> "list_companies", args |-> a,
                    result |-> list_companies(companies, a.skip, a.limit, a.industry_id),
                    earlier |-> DOMAIN tomb]
    /\ UNCHANGED <<companies, assessments, dimension_scores, clock, tomb>>
    /\ ServiceOnly

\* SnowflakeService.update_company(company_id, company)
UpdateCompany(company_id, company) ==
    /\ pc = "service"
    /\ clock < MaxClock
    /\ LET r == update_company(companies, company_id, company, clock + 1)
       IN  /\ companies' = r.table
           /\ response' = [op |-> "update_company", company_id |-> company_id,
                           company |-> company, result |-> r.result,
                           earlier |-> DOMAIN tomb]
    /\ clock' = clock + 1
    /\ UNCHANGED <<assessments, dimension_scores, tomb>>
    /\ ServiceOnly

\* SnowflakeService.delete_company(company_id)
DeleteCompany(company_id) ==
    /\ pc = "service"
    /\ clock < MaxClock
    /\ LET r == delete_company(companies, company_id, clock + 1)
       IN  /\ companies' = r.table
           /\ response' = [op |-> "delete_company", company_id |-> company_id,
                           result |-> r.result, earlier |-> DOMAIN tomb]
           /\ tomb' = IF r.result THEN tomb @@ (company_id :> r.table[company_id]) ELSE tomb
    /\ clock' = clock + 1
    /\ UNCHANGED <<assessments, dimension_scores>>
    /\ ServiceOnly

\* SnowflakeService.create_assessment(assessment); uuid4 is 1
CreateAssessment ==
    /\ pc = "service"
    /\ 1 \notin DOMAIN assessments
    /\ assessments' = create_assessment(assessments, 1)
    /\ response' = [op |-> "create_assessment"]
    /\ UNCHANGED <<companies, dimension_scores, clock, tomb>>
    /\ ServiceOnly

\* the number of rows of dimension_scores for the assessment and dimension of score
Copies(score) ==
    bag_size(dimension_scores,
             {r \in DOMAIN dimension_scores :
                 r.assessment_id = score.assessment_id /\ r.dimension = score.dimension})

\* SnowflakeService.create_dimension_score(score); culture_change is scored up
\* to MaxCopies times, every other dimension at most once
CreateDimensionScore(score) ==
    /\ pc = "service"
    /\ Copies(score) < (IF score.assessment_id = 1 /\ score.dimension = "culture_change"
                        THEN MaxCopies ELSE 1)
    /\ dimension_scores' = create_dimension_score(dimension_scores, score)
    /\ response' = [op |-> "create_dimension_score"]
    /\ UNCHANGED <<companies, assessments, clock, tomb>>
    /\ ServiceOnly

\* PATCH /api/v1/assessments/{assessment_id}/status?status=new_status
UpdateStatus(assessment_id, new_status) ==
    /\ pc = "service"
    /\ LET r == update_assessment_status(assessments, dimension_scores, assessment_id,
                                         new_status)
       IN  /\ assessments' = r.assessments
           /\ response' = [op |-> "update_status", assessment_id |-> assessment_id,
                           new_status |-> new_status, raised |-> r.raised,
                           status_code |-> update_status(r), before |-> assessments]
    /\ UNCHANGED <<companies, dimension_scores, clock, tomb>>
    /\ ServiceOnly

Next ==
    \/ \E b \in BlocksFor(ctor) : AddBlock(b, MaxBlocksFor(ctor))
    \/ Process

NextReuse ==
    \/ \E b \in ReuseBlocks : AddBlock(b, MaxReuseBlocks)
    \/ Process
    \/ \E f \in ReuseForms : NextDocument(f)

NextTables ==
    \/ \E b \in TablesBlocks : AddBlock(b, MaxTablesBlocks)
    \/ Process

NextParts ==
    \/ \E b \in PartsBlocks : AddBlock(b, MaxPartsBlocks)
    \/ Process

NextItems ==
    \/ \E b \in ItemsBlocks : AddBlock(b, MaxItemsBlocks)
    \/ Process

NextDedup ==
    \/ \E w \in Words : AddWord(w)
    \/ Deduplicate
    \/ DeduplicateAgain
    \/ DeduplicateAgainNew

NextForms ==
    \/ \E b \in FormBlocks : AddBlock(b, MaxFormBlocks)
    \/ Process
    \/ \E e \in FormElements : AddElement(e, MaxFormElements)
    \/ Parse

NextOverrides ==
    \/ \E b \in OverrideBlocks : AddBlock(b, MaxOverrideBlocks)
    \/ Process
    \/ \E f \in OverrideForms : NextDocument(f)

NextPacking ==
    \/ \E b \in PackingBlocks : AddBlock(b, MaxPackingBlocks)
    \/ Process

NextLong ==
    \/ \E b \in LongBlocks : AddBlock(b, MaxLongBlocks)
    \/ Process

NextFiling ==
    \/ \E e \in FilingElements : AddElement(e, MaxFilingElements)
    \/ Parse

NextParse ==
    \/ \E e \in ParseElements : AddElement(e, MaxParseElements)
    \/ Parse
    \/ \E f \in ParseForms : NextContent(f)

NextCompanies ==
    \/ \E c \in CompanyCreates : CreateCompany(c)
    \/ \E i \in CompanyIds : GetCompany(i)
    \/ \E a \in ListArgs : ListCompanies(a)
    \/ \E i \in CompanyIds, u \in CompanyUpdates : UpdateCompany(i, u)
    \/ \E i \in CompanyIds : DeleteCompany(i)

NextAssessments ==
    \/ CreateAssessment
    \/ \E s \in ScoreCreates : CreateDimensionScore(s)
    \/ \E i \in AssessmentIds, s \in StatusArgs : UpdateStatus(i, s)

Spec == Init /\ [][Next]_vars

SpecReuse == InitReuse /\ [][NextReuse]_vars

SpecTables == InitTables /\ [][NextTables]_vars

SpecParts == InitParts /\ [][NextParts]_vars

SpecItems == InitItems /\ [][NextItems]_vars

SpecOverrides == InitOverrides /\ [][NextOverrides]_vars

SpecPacking == InitPacking /\ [][NextPacking]_vars

SpecLong == InitLong /\ [][NextLong]_vars

SpecDedup == InitDedup /\ [][NextDedup]_vars

SpecForms == InitForms /\ [][NextForms]_vars

SpecFiling == InitFiling /\ [][NextFiling]_vars

SpecParse == InitParse /\ [][NextParse]_vars

SpecCompanies == InitService /\ [][NextCompanies]_vars

SpecAssessments == InitService /\ [][NextAssessments]_vars

\* ------------------------------------------------------------------------
\* Properties
\* ------------------------------------------------------------------------
\* the k-th returned chunk is the product of a merge: no chunk of the list
\* before _merge_undersized_chunks equals it
IsMerged(k) == \A j \in 1..Len(chunks) : chunks[j] # result[k]

\* block b is detected as an item header by the chunker in state s
DetectedAsHeader(s, b) ==
    header_info(b, split_colon(b.section_hint), pattern_match(s.pattern, b.text)).is_header

\* the header blocks of a block list as the parser marks them, in order
HeadersOf(blocks) == SelectSeq(blocks, LAMBDA b : b.type = "item_header")

HintsOf(blocks) == [k \in 1..Len(blocks) |-> blocks[k].section_hint]

\* C1: when process has returned for a document and every process call on the
\* instance had the same form_type argument (accession, ticker and year are
\* the same in all calls), the returned list and the stats are those process
\* returns and leaves for the same arguments on a newly constructed instance.
NoCrossDocumentLeakage ==
    (pc = "done" /\ forms = {args.form_type}) =>
        /\ result = process(init(ctor), args).result
        /\ self.stats = process(init(ctor), args).self.stats

\* a second document that repeats a block with a tracked fingerprint of the
\* first, and keeps it
LeakageWitness ==
    /\ pc = "done" /\ forms = {args.form_type}
    /\ LT \in Range(prev) /\ LT \in Range(args.blocks)
    /\ LT \in Range(filtered) /\ result # <<>>

\* C2: in the returned list every chunk with has_table holds the text of one
\* table block and nothing else, and none is the product of a merge (the merge
\* pass joins no chunk without a table to a chunk with one).
TableIsolation ==
    pc = "done" =>
        \A k \in 1..Len(result) :
            result[k].has_table =>
                /\ \E j \in 1..Len(filtered) :
                       filtered[j].is_table /\ result[k].content = filtered[j].text
                /\ ~IsMerged(k)

\* C3: every returned chunk's word_count is the number of words of its content.
WordCountMatchesContent ==
    pc = "done" =>
        \A k \in 1..Len(result) : result[k].word_count = Len(result[k].content)

\* a returned list with a merged chunk, from a list in which a chunk began
\* with the overlap of the chunk before it
WordCountWitness ==
    /\ pc = "done"
    /\ \E k \in 1..Len(result) : IsMerged(k)
    /\ \E j \in 2..Len(chunks) :
           /\ Len(chunks[j - 1].content) > self.overlap_size
           /\ Len(chunks[j].content) > self.overlap_size
           /\ TakeN(chunks[j].content, self.overlap_size)
                  = LastN(chunks[j - 1].content, self.overlap_size)

\* C4: after process, stats['chunks'] is the length of the returned list and
\* stats['tables'] the number of returned chunks with has_table.
StatsMatchOutput ==
    pc = "done" =>
        /\ self.stats.chunks = Len(result)
        /\ self.stats.tables = Cardinality({k \in 1..Len(result) : result[k].has_table})

\* a call in which the merge pass shortened a list that holds a table chunk
StatsWitness ==
    /\ pc = "done"
    /\ self.stats.merged_undersized > 0
    /\ Len(result) < Len(chunks)
    /\ \E k \in 1..Len(result) : result[k].has_table

\* C5: a returned chunk that has no table, is not the product of a merge and is
\* followed by another chunk of its section has between min_chunk_size and
\* max_chunk_size words.
ChunkSizeBounds ==
    pc = "done" =>
        \A k \in 1..Len(result) :
            (/\ ~result[k].has_table
             /\ ~IsMerged(k)
             /\ \E l \in (k + 1)..Len(result) : result[l].section_id = result[k].section_id)
            => /\ self.min_chunk_size <= result[k].word_count
               /\ result[k].word_count <= self.max_chunk_size

\* C6: in the list before the merge pass, of two consecutive chunks of one
\* section that have no table the second begins with the last overlap_size
\* words of the first.
OverlapCorrectness ==
    pc = "done" =>
        \A n \in 1..(Len(chunks) - 1) :
            (/\ ~chunks[n].has_table /\ ~chunks[n + 1].has_table
             /\ chunks[n].section_id = chunks[n + 1].section_id)
            => TakeN(chunks[n + 1].content, self.overlap_size)
                   = LastN(chunks[n].content, self.overlap_size)

\* C7: _deduplicate_text applied to a text it returned returns that text.
DedupIdempotent == pc = "twice" => deduped[2] = deduped[1]

\* C8: a 10-K block list without tables that begins with an ITEM 1. header,
\* has an ITEM 1A. header later and no other header, each header followed by a
\* body block, yields the two sections item_1 "Item 1: Business" and item_1a
\* "Item 1A: Risk Factors", and stats['sections'] = 2.
TwoItemSections10K ==
    (/\ pc = "done" /\ ctor = DefaultCtor(<<"1","0","-","K">>)
     /\ \A k \in 1..Len(args.blocks) : ~args.blocks[k].is_table /\ args.blocks[k] # R2
     /\ HintsOf(HeadersOf(args.blocks)) = <<<<"i","t","e","m",":","1">>, <<"i","t","e","m",":","1","A">>>>
     /\ args.blocks[1].type = "item_header"
     /\ \A k \in 1..Len(args.blocks) :
            args.blocks[k].type = "item_header" =>
                k < Len(args.blocks) /\ args.blocks[k + 1] = T5)
    => /\ self.stats.sections = 2
       /\ [k \in 1..Len(sections) |-> <<sections[k].id, sections[k].title>>]
              = << <<<<"i","t","e","m","_","1">>, <<"I","t","e","m"," ","1",":"," ","B","u","s","i","n","e","s","s">>>>,
                   <<<<"i","t","e","m","_","1","a">>, <<"I","t","e","m"," ","1","A",":"," ","R","i","s","k"," ","F","a","c","t","o","r","s">>>> >>

\* C9: a 10-Q block list whose headers are PART I, ITEM 1, PART II, ITEM 1 (two
\* different ITEM 1 blocks) yields two sections with id item_1, the first
\* titled by the Part I table and the second by the Part II table.
PartScopedTitles10Q ==
    (/\ pc = "done" /\ ctor = DefaultCtor(<<"1","0","-","Q">>)
     /\ HintsOf(HeadersOf(args.blocks)) = <<<<"p","a","r","t",":","I">>, <<"i","t","e","m",":","1">>, <<"p","a","r","t",":","I","I">>, <<"i","t","e","m",":","1">>>>
     /\ HeadersOf(args.blocks)[2] # HeadersOf(args.blocks)[4])
    => [k \in 1..Len(sections) |-> <<sections[k].id, sections[k].title>>]
           = << <<<<"i","t","e","m","_","1">>, <<"I","t","e","m"," ","1",":"," ","F","i","n","a","n","c","i","a","l"," ","S","t","a","t","e","m","e","n","t","s">>>>,
                <<<<"i","t","e","m","_","1">>, <<"I","t","e","m"," ","1",":"," ","L","e","g","a","l"," ","P","r","o","c","e","e","d","i","n","g","s">>>> >>

\* C10: when a block survives the filter and none is detected as an item
\* header, _extract_sections returns one section, full_doc, that holds the
\* surviving blocks in their order.
FullDocWhenNoHeaders ==
    (/\ pc = "done" /\ filtered # <<>>
     /\ \A k \in 1..Len(filtered) : ~DetectedAsHeader(self, filtered[k]))
    => /\ Len(sections) = 1
       /\ sections[1].id = <<"f","u","l","l","_","d","o","c">>
       /\ sections[1].blocks = filtered

\* a 10-Q document without item headers whose part header was consumed
FullDocWitness ==
    /\ pc = "done" /\ self.form_type = <<"1","0","-","Q">>
    /\ Len(filtered) >= 2 /\ filtered[1] = PIIL /\ filtered[2] = T5
    /\ self.current_10q_part = <<"I","I">>
    /\ \A k \in 1..Len(filtered) : ~DetectedAsHeader(self, filtered[k])
    /\ sections[1].id = <<"f","u","l","l","_","d","o","c">>
\* C11: when no block is passed, or the filter removes every block, process
\* returns the empty list and leaves stats['sections'] = stats['chunks'] = 0.
EmptyInputGivesNoChunks ==
    (pc = "done" /\ filtered = <<>>) =>
        /\ result = <<>>
        /\ sections = <<>>
        /\ self.stats.sections = 0
        /\ self.stats.chunks = 0

\* a call whose blocks were all removed, one of them as boilerplate
EmptyWitness ==
    /\ pc = "done" /\ Len(args.blocks) >= 2 /\ filtered = <<>>
    /\ self.stats.boilerplate_skipped = Len(args.blocks)
    /\ PII \in Range(args.blocks)
    /\ result = <<>>
\* block b passes the boilerplate and the five-word test of _filter_boilerplate
PassesBoilerplate(b) == ~BOILERPLATE_RE_match(b.text) /\ (b.is_table \/ Len(b.text) >= 5)

\* the positions of blocks whose block passes those tests and has the
\* fingerprint, longer than minlen characters, of an earlier such block
RepeatedPositions(blocks, minlen) ==
    {j \in 1..Len(blocks) :
        /\ PassesBoilerplate(blocks[j])
        /\ LET fingerprint == get_content_fingerprint(blocks[j].text)
           IN  /\ Len(fingerprint) > minlen
               /\ \E i \in 1..(j - 1) :
                      /\ PassesBoilerplate(blocks[i])
                      /\ get_content_fingerprint(blocks[i].text) = fingerprint}

\* the blocks at the positions in keep, in their order
RECURSIVE Pick(_, _, _)
Pick(blocks, i, keep) ==
    IF i > Len(blocks) THEN <<>>
    ELSE (IF i \in keep THEN <<blocks[i]>> ELSE <<>>) \o Pick(blocks, i + 1, keep)

PassingPositions(blocks) == {j \in 1..Len(blocks) : PassesBoilerplate(blocks[j])}

Contains(t, s) == \E i \in 1..(Len(t) - Len(s) + 1) : SubSeq(t, i, i + Len(s) - 1) = s

\* the sentences of more than max_chunk_size words in the non-table blocks of
\* the sections' bodies
LongSentences ==
    UNION {{s \in Range(split_sentences(sections[i].blocks[j].text)) :
                Len(s) > self.max_chunk_size} :
           <<i, j>> \in {p \in (1..Len(sections)) \X (1..Len(args.blocks)) :
                             /\ p[2] <= Len(sections[p[1]].blocks)
                             /\ ~sections[p[1]].blocks[p[2]].is_table}}

\* C13 as stated: a sentence of more than max_chunk_size words is in exactly
\* one returned chunk, whole, and that chunk holds nothing else but at most
\* overlap_size words before it.
LongSentenceInOneChunk ==
    pc = "done" =>
        \A s \in LongSentences :
            /\ Cardinality({k \in 1..Len(result) : Contains(result[k].content, s)}) = 1
            /\ \A k \in 1..Len(result) :
                   Contains(result[k].content, s) =>
                       /\ LastN(result[k].content, Len(s)) = s
                       /\ Len(result[k].content) - Len(s) <= self.overlap_size

\* C13 amended: the same when overlap_size is at most max_chunk_size.
LongSentenceKeptWhole ==
    (pc = "done" /\ self.overlap_size <= self.max_chunk_size) =>
        \A s \in LongSentences :
            /\ Cardinality({k \in 1..Len(result) : Contains(result[k].content, s)}) = 1
            /\ \A k \in 1..Len(result) :
                   Contains(result[k].content, s) =>
                       /\ LastN(result[k].content, Len(s)) = s
                       /\ Len(result[k].content) - Len(s) <= self.overlap_size

\* a long sentence chunked after another chunk and before the rest of its block
LongSentenceWitness ==
    /\ pc = "done" /\ LongSentences # {} /\ self.overlap_size <= self.max_chunk_size
    /\ \E k \in 2..(Len(result) - 1) :
           /\ \E s \in LongSentences : Contains(result[k].content, s)
           /\ Len(result[k].content) = 9
           /\ result[k + 1].section_id = result[k].section_id

\* ------------------------------------------------------------------------
\* C12
\* ------------------------------------------------------------------------
KnownForms == {<<"1","0","-","K">>, <<"1","0","-","Q">>, <<"8","-","K">>}

\* a chunk without the form type, which its id holds after the ticker
WithoutForm(c) ==
    [content |-> c.content, ticker |-> c.ticker, year |-> c.year,
     accession_number |-> c.accession_number, section_id |-> c.section_id,
     section_title |-> c.section_title, page |-> c.page, has_table |-> c.has_table,
     word_count |-> c.word_count,
     id_tail |-> DropN(c.id, Len(c.ticker) + 1 + Len(c.form_type))]

\* what a SECChunker("10-K") makes of the blocks of the last call
AsTenK == process(init(DefaultCtor(<<"1","0","-","K">>)), [args EXCEPT !.form_type = <<>>])

\* what a SECParser(form_type="10-K") makes of the last filing
ParsedAsTenK == parse(SECParser(<<"1","0","-","K">>), content, <<>>)

\* C12: for a form type that is none of 10-K, 10-Q and 8-K, process returns,
\* with the pattern, the item titles and the four sizes of a 10-K and the
\* sections, chunks and statistics a 10-K instance produces, and parse returns,
\* with the section patterns of a 10-K and the blocks and statistics a 10-K
\* parser produces.
UnknownFormAsTenK ==
    /\ (pc = "done" /\ self.form_type \notin KnownForms) =>
           /\ self.pattern = ITEM_PATTERNS[<<"1","0","-","K">>]
           /\ item_titles_of(self) = ITEM_TITLES_10K
           /\ self.target_chunk_size = FORM_CONFIGS[<<"1","0","-","K">>].target_chunk_size
           /\ self.min_chunk_size = FORM_CONFIGS[<<"1","0","-","K">>].min_chunk_size
           /\ self.max_chunk_size = FORM_CONFIGS[<<"1","0","-","K">>].max_chunk_size
           /\ self.overlap_size = FORM_CONFIGS[<<"1","0","-","K">>].overlap_size
           /\ sections = AsTenK.sections
           /\ self.stats = AsTenK.self.stats
           /\ [k \in 1..Len(result) |-> WithoutForm(result[k])]
                  = [k \in 1..Len(AsTenK.result) |-> WithoutForm(AsTenK.result[k])]
    /\ (pc = "parsed" /\ parser.form_type \notin KnownForms) =>
           /\ parser.section_patterns = FORM_SECTION_PATTERNS[<<"1","0","-","K">>]
           /\ parsed = ParsedAsTenK.blocks
           /\ [parser EXCEPT !.form_type = <<"1","0","-","K">>] = ParsedAsTenK.self

\* an S-1 instance has titled a section from the item titles of a 10-K
UnknownFormWitness ==
    /\ pc = "done" /\ self.form_type = <<"S","-","1">>
    /\ \E k \in 1..Len(result) : result[k].section_title = <<"I","t","e","m"," ","1","A",":"," ","R","i","s","k"," ","F","a","c","t","o","r","s">>

\* ------------------------------------------------------------------------
\* C15
\* ------------------------------------------------------------------------
\* what a new parser of the instance's form type makes of the last filing
FreshParse == parse(SECParser(parser.form_type), content, <<>>)

\* C15: whatever the instance parsed before, parse returns the blocks, and
\* leaves the statistics, the seen sentences and the current part, that a new
\* parser of the same form type returns and leaves for the same filing.
ParseIndependentOfEarlier ==
    pc = "parsed" => parsed = FreshParse.blocks /\ parser = FreshParse.self

\* a second filing was parsed and a block of it is a sentence the instance had
\* seen in the first
ParseReuseWitness ==
    /\ pc = "parsed" /\ parses = 2
    /\ \E k \in 1..Len(parsed) :
           \E j \in 1..Len(split_sentences(parsed[k].text)) :
               lower(Chars(split_sentences(parsed[k].text)[j])) \in seen_before

\* ------------------------------------------------------------------------
\* C16
\* ------------------------------------------------------------------------
\* the dimension scores of assessment a, one element for each row
ScoreRowsOf(a) ==
    {e \in (DOMAIN dimension_scores) \X (1..(MaxCopies + 1)) :
        e[1].assessment_id = a /\ e[2] <= dimension_scores[e[1]]}

RECURSIVE WeightSum(_)
WeightSum(rows) ==
    IF rows = {} THEN 0
    ELSE LET e == CHOOSE e \in rows : TRUE IN e[1].weight + WeightSum(rows \ {e})

\* exactly seven scores that cover the seven dimensions
SevenCovering(a) ==
    /\ Cardinality(ScoreRowsOf(a)) = 7
    /\ {e[1].dimension : e \in ScoreRowsOf(a)} = Dimension

\* the last call asked for the status "submitted"
SubmitAsked == response.op = "update_status" /\ response.new_status = "submitted"

\* the last call was answered with 400 for a ValueError and stored nothing
Rejected ==
    /\ response.raised = "ValueError" /\ response.status_code = 400
    /\ assessments = response.before

DeletedCompanyStaysDeleted ==
    /\ \A i \in DOMAIN tomb : companies[i] = tomb[i]
    /\ (response.op = "get_company" /\ response.company_id \in response.earlier)
           => response.result = None
    /\ response.op = "list_companies" =>
           /\ \A k \in 1..Len(response.result.companies) :
                  response.result.companies[k].id \notin response.earlier
           /\ response.result.total <= Cardinality(DOMAIN companies \ response.earlier)
    /\ (response.op = "update_company" /\ response.company_id \in response.earlier)
           => response.result = None
    /\ (response.op = "delete_company" /\ response.company_id \in response.earlier)
           => response.result = FALSE

\* update_company was called with a new name for a company deleted before
DeletedCompanyWitness ==
    /\ response.op = "update_company"
    /\ response.company_id \in response.earlier
    /\ response.company.name # "None"

\* ------------------------------------------------------------------------
\* C18
\* ------------------------------------------------------------------------
\* whether block b is marked as an item header by the parser
MarkedItemHeader(b) ==
    b.type = "item_header" /\ StartsWith(b.section_hint, <<"i","t","e","m",":">>)

\* C18: the item sections of the result are as many as the blocks of the input
\* that the parser marked as item headers, and no such block is in the body of
\* a section.
ItemHeadersStartSections ==
    pc = "done" =>
        /\ Cardinality({k \in 1..Len(sections) : StartsWith(sections[k].id, <<"i","t","e","m","_">>)})
               = Cardinality({k \in 1..Len(args.blocks) : MarkedItemHeader(args.blocks[k])})
        /\ \A k \in 1..Len(sections) :
               \A j \in 1..Len(sections[k].blocks) : ~MarkedItemHeader(sections[k].blocks[j])

\* ------------------------------------------------------------------------
\* C19
\* ------------------------------------------------------------------------
\* whether _extract_sections takes block b for an item header
DetectedItemHeader(b) ==
    header_info(b, split_colon(b.section_hint), pattern_match(self.pattern, b.text)).is_header

ItemSection(sec) == StartsWith(sec.id, <<"i","t","e","m","_">>)

\* the title fragment of a heading: what follows the item number in its text
TitleFragment(b) == pattern_match(self.pattern, b.text).group2

\* the item number of a detected header
ItemNumberOf(b) ==
    header_info(b, split_colon(b.section_hint), pattern_match(self.pattern, b.text)).item_num

\* the title the section of header b is to have: the standardized title when
\* the fragment is shorter than 10 characters and the table has the number,
\* else the fragment
TitleFor(b, std_title) ==
    <<"I","t","e","m"," ">> \o ItemNumberOf(b) \o <<":"," ">>
        \o (IF Len(TitleFragment(b)) < 10 /\ std_title # <<>> THEN std_title
            ELSE TitleFragment(b))

\* C19: the section of a detected item header has the title fragment of the
\* heading text in its title, unless the fragment is shorter than the threshold
\* and the table of the form type has a title for the item number, which then
\* takes its place; so a header whose item number is not in the table keeps
\* the fragment (form types with one flat table).
HeaderTitleKeepsFragment ==
    (pc = "done" /\ self.form_type # <<"1","0","-","Q">>) =>
        LET headers == SelectSeq(filtered, DetectedItemHeader)
            items == SelectSeq(sections, ItemSection)
        IN  /\ Len(items) = Len(headers)
            /\ \A k \in 1..Len(headers) :
                   items[k].title = TitleFor(headers[k], get_item_title(self, ItemNumberOf(headers[k])))

\* ------------------------------------------------------------------------
\* C20
\* ------------------------------------------------------------------------
\* the contents of chunks a..b of the list before the merge pass, joined
RECURSIVE JoinedContent(_, _)
JoinedContent(a, b) ==
    IF a > b THEN <<>> ELSE chunks[a].content \o JoinedContent(a + 1, b)

\* the k-th returned chunk is chunks a..b of the list before the merge pass:
\* one chunk as it was, or adjacent chunks of one section merged
IsRun(k, a, b) ==
    /\ result[k].content = JoinedContent(a, b)
    /\ a = b => result[k] = chunks[a]
    /\ a < b =>
           /\ \A j \in a..b : chunks[j].section_id = result[k].section_id
           /\ result[k].word_count <= self.max_chunk_size
           /\ result[k].id = chunks[a].id
           /\ result[k].page = chunks[a].page

\* the returned chunks from the k-th on are the chunks from the a-th on, run by run
RECURSIVE RunsFrom(_, _)
RunsFrom(k, a) ==
    IF k > Len(result) THEN a = Len(chunks) + 1
    ELSE \E b \in a..Len(chunks) : IsRun(k, a, b) /\ RunsFrom(k + 1, b + 1)

Undersized(c) == c.word_count < self.min_chunk_size /\ ~c.has_table

\* chunks j and n of the list before the merge pass may not be merged: they are
\* of different sections or too large together
NotMergeable(j, n) ==
    \/ chunks[j].section_id # chunks[n].section_id
    \/ Len(chunks[j].content \o chunks[n].content) > self.max_chunk_size

\* chunk j has no neighbour it may be merged with
Unmergeable(j) ==
    \A n \in {j - 1, j + 1} \cap (1..Len(chunks)) : NotMergeable(j, n)

\* C20: the list the merge pass returns is the list it was given with runs of
\* adjacent chunks merged; every merged chunk is made of chunks of one
\* section_id, has word_count <= max_chunk_size and the id and page of the
\* first chunk of its run; and an undersized chunk that may be merged with
\* neither neighbour is in the returned list as it was.
MergeJoinsAdjacentOfSection ==
    pc = "done" =>
        /\ RunsFrom(1, 1)
        /\ \A j \in 1..Len(chunks) :
               (Undersized(chunks[j]) /\ Unmergeable(j)) => chunks[j] \in Range(result)

\* a returned list with a merged chunk and with an undersized chunk that could
\* not be merged
MergeWitness ==
    /\ pc = "done"
    /\ \E k \in 1..Len(result) : IsMerged(k) /\ result[k].id \in {chunks[j].id : j \in 1..Len(chunks)}
    /\ \E j \in 1..Len(chunks) :
           Undersized(chunks[j]) /\ Unmergeable(j) /\ chunks[j] \in Range(result)

\* ------------------------------------------------------------------------
\* C21
\* ------------------------------------------------------------------------
\* block b of a section's body gets into a chunk: it is no table below
\* min_table_words
Retained(b) == ~b.is_table \/ Len(b.text) >= self.min_table_words

RetainedTable(b) == b.is_table /\ Len(b.text) >= self.min_table_words

\* the retained blocks of the bodies of all sections, in order
RECURSIVE RetainedFrom(_)
RetainedFrom(k) ==
    IF k > Len(sections) THEN <<>>
    ELSE SelectSeq(sections[k].blocks, Retained) \o RetainedFrom(k + 1)

HasRetained(sec) == SelectSeq(sec.blocks, Retained) # <<>>

\* a chunk with sequence index 0 is the first chunk of its section
FirstOfSection(c) == LastN(c.id, 4) = <<"0","0","0","0">>

TableChunk(c) == c.has_table

\* the texts of a sequence of blocks, the contents of a sequence of chunks
TextsOf(blocks) == [k \in 1..Len(blocks) |-> blocks[k].text]

ContentsOf(cs) == [k \in 1..Len(cs) |-> cs[k].content]

\* one of two word sequences begins with the other
SameBeginning(x, y) == TakeN(x, Min(Len(x), Len(y))) = TakeN(y, Min(Len(x), Len(y)))

\* C21 as stated: before the merge pass the table chunks hold, in order, the
\* texts of the retained table blocks and nothing more, and the first chunk of
\* every section begins with the whole text of the section's first retained
\* block.
FirstChunkStartsWithBlock ==
    pc = "done" =>
        LET firsts == SelectSeq(chunks, FirstOfSection)
            bodies == SelectSeq(sections, HasRetained)
        IN  /\ ContentsOf(SelectSeq(chunks, TableChunk))
                   = TextsOf(SelectSeq(RetainedFrom(1), RetainedTable))
            /\ Len(firsts) = Len(bodies)
            /\ \A k \in 1..Len(firsts) :
                   /\ firsts[k].section_id = bodies[k].id
                   /\ StartsWith(firsts[k].content, SelectSeq(bodies[k].blocks, Retained)[1].text)

\* C21: before the merge pass the table chunks hold, in order, the texts of
\* the retained table blocks and nothing more, and the first chunk of every
\* section begins where the section's first retained block begins: with the
\* whole text of the block, or with its first sentences when the block was
\* split. No overlap is put before either.
NoOverlapAcrossSectionOrTable ==
    pc = "done" =>
        LET firsts == SelectSeq(chunks, FirstOfSection)
            bodies == SelectSeq(sections, HasRetained)
        IN  /\ ContentsOf(SelectSeq(chunks, TableChunk))
                   = TextsOf(SelectSeq(RetainedFrom(1), RetainedTable))
            /\ Len(firsts) = Len(bodies)
            /\ \A k \in 1..Len(firsts) :
                   /\ firsts[k].section_id = bodies[k].id
                   /\ SameBeginning(firsts[k].content,
                                    SelectSeq(bodies[k].blocks, Retained)[1].text)

\* a table chunk that follows a chunk longer than the overlap in its section,
\* and a section whose first chunk follows such a chunk of the section before
NoOverlapWitness ==
    /\ pc = "done"
    /\ \E n \in 2..Len(chunks) :
           /\ chunks[n].has_table /\ ~chunks[n - 1].has_table
           /\ chunks[n - 1].section_id = chunks[n].section_id
           /\ Len(chunks[n - 1].content) > self.overlap_size
    /\ \E n \in 2..Len(chunks) :
           /\ FirstOfSection(chunks[n]) /\ ~chunks[n - 1].has_table
           /\ Len(chunks[n - 1].content) > self.overlap_size

\* ------------------------------------------------------------------------
\* C22
\* ------------------------------------------------------------------------
\* the retained blocks of the bodies of the sections from the k-th on, in
\* order, each with the number of its section
RECURSIVE TaggedFrom(_)
TaggedFrom(k) ==
    IF k > Len(sections) THEN <<>>
    ELSE LET body == SelectSeq(sections[k].blocks, Retained)
         IN  [j \in 1..Len(body) |-> [block |-> body[j], section |-> k]] \o TaggedFrom(k + 1)

\* the position in the list before the merge pass of the j-th table chunk
TableChunkIndex(j) ==
    CHOOSE n \in 1..Len(chunks) :
        /\ chunks[n].has_table
        /\ Cardinality({m \in 1..n : chunks[m].has_table}) = j

\* the number of retained tables among the first p retained blocks
TablesUpTo(tagged, p) == Cardinality({q \in 1..p : tagged[q].block.is_table})

\* the last sentence of a text
LastSentence(t) == split_sentences(t)[Len(split_sentences(t))]

SmallTable(b) == b.is_table /\ Len(b.text) < self.min_table_words

\* the small tables in the bodies of the sections from the k-th on
RECURSIVE SmallTablesFrom(_)
SmallTablesFrom(k) ==
    IF k > Len(sections) THEN <<>>
    ELSE SelectSeq(sections[k].blocks, SmallTable) \o SmallTablesFrom(k + 1)

\* C22: in the list before the merge pass there is one has_table chunk for each
\* table block of min_table_words words or more, in order, holding the text of
\* that table and nothing else; when a text block precedes the table in its
\* section, the chunk before the table chunk is a chunk without table of the
\* same section that ends with the end of that text; a table of fewer words
\* is in no chunk, and trivial_skipped is the number of these tables.
TablesGetOwnChunk ==
    pc = "done" =>
        LET tagged == TaggedFrom(1)
        IN  /\ Cardinality({n \in 1..Len(chunks) : chunks[n].has_table})
                   = TablesUpTo(tagged, Len(tagged))
            /\ \A p \in 1..Len(tagged) :
                   tagged[p].block.is_table =>
                       LET n == TableChunkIndex(TablesUpTo(tagged, p))
                       IN  /\ chunks[n].content = tagged[p].block.text
                           /\ chunks[n].section_id = sections[tagged[p].section].id
                           /\ (/\ p > 1 /\ tagged[p - 1].section = tagged[p].section
                               /\ ~tagged[p - 1].block.is_table)
                              => /\ n > 1
                                 /\ ~chunks[n - 1].has_table
                                 /\ chunks[n - 1].section_id = chunks[n].section_id
                                 /\ LastN(chunks[n - 1].content,
                                          Len(LastSentence(tagged[p - 1].block.text)))
                                        = LastSentence(tagged[p - 1].block.text)
            /\ \A n \in 1..Len(chunks) :
                   \A b \in Range(SmallTablesFrom(1)) : ~Contains(chunks[n].content, b.text)
            /\ self.stats.trivial_skipped = Len(SmallTablesFrom(1))

\* a section with a text, a table that gets its chunk and a table that is skipped
TablesWitness ==
    /\ pc = "done"
    /\ self.stats.trivial_skipped > 0
    /\ \E n \in 2..Len(chunks) :
           /\ chunks[n].has_table /\ ~chunks[n - 1].has_table
           /\ chunks[n - 1].section_id = chunks[n].section_id
    /\ \E k \in 1..Len(sections) :
           /\ \E b \in Range(sections[k].blocks) : SmallTable(b)
           /\ \E b \in Range(sections[k].blocks) : RetainedTable(b)

\* ------------------------------------------------------------------------
\* C23
\* ------------------------------------------------------------------------
\* the elements of the filing whose text parse reads: no table, rule or page break
TextElement(e) == e.name # "table" /\ e.name # "hr" /\ ~e.page_break

\* the sentences of element e as the sentence step gets them
SentencesIn(e) ==
    split_sentences(remove_consecutive_duplicates(parser, XBRL_CRUFT_RE_sub(e.text)).text)

\* the phrases _remove_consecutive_duplicates removes from the text of e
PhrasesRemoved(e) ==
    remove_consecutive_duplicates([duplicates_removed |-> 0], XBRL_CRUFT_RE_sub(e.text))
        .self.duplicates_removed

\* the normalized form of a sentence: lower case, single spaces
Normalized(sentence) == lower(Chars(sentence))

\* sentence j of element i of els is a later occurrence of a sentence whose
\* normalized form has more than 20 characters
LaterOccurrence(els, i, j) ==
    /\ Len(Normalized(SentencesIn(els[i])[j])) > 20
    /\ \E i2 \in 1..i : \E j2 \in 1..Len(SentencesIn(els[i2])) :
           /\ i2 < i \/ j2 < j
           /\ Normalized(SentencesIn(els[i2])[j2]) = Normalized(SentencesIn(els[i])[j])

\* the text of element i without the later occurrences
FirstOccurrences(els, i) ==
    Flatten([j \in 1..Len(SentencesIn(els[i])) |->
                IF LaterOccurrence(els, i, j) THEN <<>> ELSE SentencesIn(els[i])[j]])

\* a text gets a block: it has more than min_text_len characters and is no noise
GetsBlock(t) == Len(Chars(t)) > parser.min_text_len /\ ~is_xbrl_noise(t)

TextBlock(b) == ~b.is_table

\* the sentences of the text blocks of the output, each with its place
OutputSentences ==
    {<<k, j>> \in (1..Len(parsed)) \X (1..Len(Flatten(TextsOf(parsed)))) :
        ~parsed[k].is_table /\ j <= Len(split_sentences(parsed[k].text))}

\* C23: the text blocks parse returns are the texts of the elements without
\* every later occurrence of a sentence whose normalized form has more than
\* 20 characters, in the same element or a later one, the first occurrence
\* kept; duplicates_removed counts each dropped sentence once (besides the
\* phrases removed before); and no such normalized sentence is twice in the
\* text blocks of the output.
SentencesKeptOnce ==
    pc = "parsed" =>
        LET els == SelectSeq(content, TextElement)
        IN  /\ TextsOf(SelectSeq(parsed, TextBlock))
                   = SelectSeq([i \in 1..Len(els) |-> FirstOccurrences(els, i)], GetsBlock)
            /\ parser.duplicates_removed
                   = Cardinality({p \in (1..Len(els)) \X (1..MaxFilingElements * 12) :
                                     /\ p[2] <= Len(SentencesIn(els[p[1]]))
                                     /\ LaterOccurrence(els, p[1], p[2])})
                     + Len(Flatten([i \in 1..Len(els) |->
                                       [x \in 1..PhrasesRemoved(els[i]) |-> x]]))
            /\ \A p \in OutputSentences, q \in OutputSentences :
                   (/\ p # q
                    /\ Len(Normalized(split_sentences(parsed[p[1]].text)[p[2]])) > 20)
                   => Normalized(split_sentences(parsed[p[1]].text)[p[2]])
                          # Normalized(split_sentences(parsed[q[1]].text)[q[2]])

\* a filing in which a sentence comes back in the same element and another
\* in a later element
SentencesWitness ==
    /\ pc = "parsed"
    /\ LET els == SelectSeq(content, TextElement)
       IN  /\ \E i \in 1..Len(els) : \E j \in 1..Len(SentencesIn(els[i])) :
                  /\ LaterOccurrence(els, i, j)
                  /\ \E j2 \in 1..(j - 1) :
                         Normalized(SentencesIn(els[i])[j2]) = Normalized(SentencesIn(els[i])[j])
           /\ \E i \in 1..Len(els) : \E j \in 1..Len(SentencesIn(els[i])) :
                  /\ LaterOccurrence(els, i, j)
                  /\ \A j2 \in 1..(j - 1) :
                         Normalized(SentencesIn(els[i])[j2]) # Normalized(SentencesIn(els[i])[j])
    /\ Len(parsed) >= 2

\* ------------------------------------------------------------------------
\* C24
\* ------------------------------------------------------------------------
\* a rule or an element styled as a page break
PageBreak(e) == e.name # "table" /\ (e.name = "hr" \/ e.page_break)

\* C24: in the list parse returns every block has a page of at least 1, the
\* pages do not decrease along the list, the tables appended at the end
\* included, and stats['pages'] is 1 plus the number of page-break elements
\* of the filing.
PagesNonDecreasing ==
    pc = "parsed" =>
        /\ \A k \in 1..Len(parsed) : parsed[k].page >= 1
        /\ \A k \in 1..(Len(parsed) - 1) : parsed[k].page <= parsed[k + 1].page
        /\ parser.pages = 1 + Len(SelectSeq(content, PageBreak))

\* a filing with a text, a page break after it and a table: the table block
\* comes last, on a later page than the text
PagesWitness ==
    /\ pc = "parsed"
    /\ Len(parsed) >= 2
    /\ parsed[Len(parsed)].is_table
    /\ ~parsed[1].is_table
    /\ parsed[1].page < parsed[Len(parsed)].page
    /\ parser.pages > 1

\* ------------------------------------------------------------------------
\* C25
\* ------------------------------------------------------------------------
\* a block the parser marked as a part header
PartHeader(b) == StartsWith(b.section_hint, <<"p","a","r","t",":">>)

\* C25: on an instance for 10-Q the current part is "I" or "II" before and
\* after every process call; it is "I" after a call whose blocks held no part
\* header; and the item sections are as many as the detected item headers, so
\* that no part header starts a section.
PartTrackerTwoValued ==
    self.form_type = <<"1","0","-","Q">> =>
        /\ self.current_10q_part \in {<<"I">>, <<"I","I">>}
        /\ pc = "done" =>
               /\ SelectSeq(filtered, PartHeader) = <<>> => self.current_10q_part = <<"I">>
               /\ Len(SelectSeq(sections, ItemSection))
                      = Len(SelectSeq(filtered, DetectedItemHeader))

\* ------------------------------------------------------------------------
\* C26
\* ------------------------------------------------------------------------
\* C26: the chunks of the list process returns have pairwise distinct ids.
ChunkIdsDistinct ==
    pc = "done" =>
        \A j \in 1..Len(result) : \A k \in 1..Len(result) :
            j # k => result[j].id # result[k].id

\* C27: the size overrides given to the constructor stay in effect on the
\* instance through every process call, with or without a form_type argument.
SizeOverridesKept ==
    /\ self.target_chunk_size = ctor.target_chunk_size
    /\ self.min_chunk_size = ctor.min_chunk_size
    /\ self.max_chunk_size = ctor.max_chunk_size
    /\ self.overlap_size = ctor.overlap_size

\* ------------------------------------------------------------------------
\* C28
\* ------------------------------------------------------------------------
\* chunk n of the list before the merge pass begins with the overlap of the
\* chunk before it: it is no table chunk and not the first of its section, and
\* the chunk before it has more than overlap_size words
HasOverlapPrefix(n) ==
    /\ n > 1
    /\ ~chunks[n].has_table
    /\ ~FirstOfSection(chunks[n])
    /\ Len(chunks[n - 1].content) > self.overlap_size

\* the content of chunk n without its overlap prefix
WithoutOverlap(n) ==
    IF HasOverlapPrefix(n) THEN DropN(chunks[n].content, self.overlap_size)
    ELSE chunks[n].content

\* the positions in the list before the merge pass of the chunks of the j-th
\* section that has chunks
ChunksOfSection(j) ==
    {n \in 1..Len(chunks) :
        Cardinality({m \in 1..n : FirstOfSection(chunks[m])}) = j}

\* the words of the chunks at positions n and later of the set ns, in order
RECURSIVE PackedWords(_, _)
PackedWords(ns, n) ==
    IF n > Len(chunks) THEN <<>>
    ELSE (IF n \in ns THEN WithoutOverlap(n) ELSE <<>>) \o PackedWords(ns, n + 1)

\* C28: for every section the chunks before the merge pass, each without its
\* overlap prefix, give in order the words of the section's body blocks
\* without the tables below min_table_words, and every overlap prefix is the
\* last overlap_size words of the chunk before; the merge pass keeps the
\* concatenation of the chunk contents.
PackingKeepsWords ==
    pc = "done" =>
        LET bodies == SelectSeq(sections, HasRetained)
        IN  /\ \A n \in 1..Len(chunks) :
                   HasOverlapPrefix(n) =>
                       TakeN(chunks[n].content, self.overlap_size)
                           = LastN(chunks[n - 1].content, self.overlap_size)
            /\ \A n \in 1..Len(chunks) :
                   Cardinality({m \in 1..n : FirstOfSection(chunks[m])}) \in 1..Len(bodies)
            /\ \A j \in 1..Len(bodies) :
                   /\ ChunksOfSection(j) # {}
                   /\ \A n \in ChunksOfSection(j) : chunks[n].section_id = bodies[j].id
                   /\ PackedWords(ChunksOfSection(j), 1)
                          = Flatten(TextsOf(SelectSeq(bodies[j].blocks, Retained)))
            /\ Flatten(ContentsOf(result)) = Flatten(ContentsOf(chunks))

\* a section with a small table, a block split by sentences, a chunk that
\* begins with an overlap, and a merge
PackingWitness ==
    /\ pc = "done"
    /\ Len(result) < Len(chunks)
    /\ \E n \in 1..Len(chunks) : HasOverlapPrefix(n)
    /\ \E k \in 1..Len(sections) :
           /\ \E b \in Range(sections[k].blocks) : SmallTable(b)
           /\ \E b \in Range(sections[k].blocks) : RetainedTable(b)
           /\ Len(SelectSeq(sections[k].blocks, Retained)) 
                  < Cardinality({n \in 1..Len(chunks) : chunks[n].section_id = sections[k].id})

\* ------------------------------------------------------------------------
\* C29
\* ------------------------------------------------------------------------
\* the words of the table blocks of the call
TableWords == UNION {Range(b.text) : b \in {t \in Range(args.blocks) : t.is_table}}

HasTableText(c) == Range(c.content) \cap TableWords # {}

\* C29: before and after the merge pass has_table is true exactly for the
\* chunks whose content holds words of a table block.
HasTableMarksTableText ==
    pc = "done" =>
        /\ \A n \in 1..Len(chunks) : chunks[n].has_table <=> HasTableText(chunks[n])
        /\ \A n \in 1..Len(result) : result[n].has_table <=> HasTableText(result[n])

\* ------------------------------------------------------------------------
\* C30
\* ------------------------------------------------------------------------
\* the whole normalized text of a block: table markup replaced, lower case,
\* letters and digits only, single spaces
NormalizedText(b) ==
    LET s0 == Chars(b.text)
        s1 == IF "|" \in Range(s0) THEN TABLE_DATA_RE_sub(s0) ELSE s0
    IN  Chars(split(SelectSeq(lower(s1), LAMBDA c : c \in LowerLetters \cup Digits \cup {" ", "\n"})))

\* the blocks of the call that reach the deduplication: no boilerplate, and no
\* text of fewer than five words
Candidate(b) == ~BOILERPLATE_RE_match(b.text) /\ (b.is_table \/ Len(b.text) >= 5)

FingerprintLen == 200

First200(b) == TakeN(NormalizedText(b), FingerprintLen)

\* the candidate blocks of the call, in order
Candidates == SelectSeq(args.blocks, Candidate)

\* C30 as stated: a candidate block whose whole normalized text differs from
\* that of every candidate block before it is retained.
WholeTextDecidesDrop ==
    pc = "done" =>
        \A j \in 1..Len(Candidates) :
            (\A i \in 1..(j - 1) : NormalizedText(Candidates[i]) # NormalizedText(Candidates[j]))
                => Candidates[j] \in Range(filtered)

\* C30: a candidate block whose normalized text differs within its first 200
\* characters from that of every candidate block before it is retained; of the
\* candidate blocks with the same first 200 characters all are retained when
\* these are 20 characters or fewer, and the first one only when they are more.
First200DecidesDrop ==
    pc = "done" =>
        /\ \A j \in 1..Len(Candidates) :
               (\A i \in 1..(j - 1) : First200(Candidates[i]) # First200(Candidates[j]))
                   => Candidates[j] \in Range(filtered)
        /\ \A b \in Range(Candidates) :
               LET same(c) == First200(c) = First200(b)
               IN  Len(SelectSeq(filtered, same))
                       = IF Len(First200(b)) > 20 THEN 1 ELSE Len(SelectSeq(Candidates, same))

\* a block dropped although its normalized text differs from every earlier
\* one after the 200th character, next to a retained block that differs
\* from the first within the first 200 characters
First200Witness ==
    /\ pc = "done"
    /\ \E j \in 2..Len(Candidates) :
           /\ Candidates[j] \notin Range(filtered)
           /\ \A i \in 1..(j - 1) : NormalizedText(Candidates[i]) # NormalizedText(Candidates[j])
    /\ \E j \in 2..Len(filtered) :
           /\ Len(NormalizedText(filtered[j])) > FingerprintLen
           /\ Len(NormalizedText(filtered[1])) > FingerprintLen
           /\ First200(filtered[j]) # First200(filtered[1])

====
